---- MODULE Spec2Model ----
(***************************************************************************)
(* Qualification engine of the Livesport H2H scraper.                      *)
(*                                                                         *)
(* Texts (team names, goal texts, score strings) are sequences of one      *)
(* character strings.  Python's None is the value None below, which is no  *)
(* text the pages can produce.  Floats that the code obtains as a quotient *)
(* of two small integers are kept as the pair <<numerator, denominator>>   *)
(* and compared by cross multiplication.                                   *)
(***************************************************************************)
EXTENDS Integers, Sequences, FiniteSets, TLC

VARIABLES
    pc,               \* position inside process_match
    away_team_focus,  \* parameter of process_match
    home_team,        \* out['home_team']
    away_team,        \* out['away_team']
    h2h,              \* out['h2h_last5']: the records parsed from the page
    cnt_home,         \* out['home_wins_in_h2h_last5']
    cnt_away,         \* out['away_wins_in_h2h_last5']
    h2h_count,        \* out['h2h_count']
    win_rate,         \* out['win_rate'] as <<numerator, denominator>>
    basic_qualifies,  \* local of process_match
    qualifies,        \* out['qualifies']
    forms,            \* the four form records of out
    form_advantage,   \* out['form_advantage']
    odds,             \* out['home_odds'], out['away_odds']
    ou,               \* the over/under and BTTS fields of out
    nm,               \* a name comparison: its inputs and its result
    pt,               \* a call of form_points: its input and its result
    fm,               \* a call of the form analyzers: profile and results
    tn,               \* a run of process_match_tennis: its position and its out
    sf,               \* a call of calculate_surface_stats_from_h2h
    od,               \* a call of get_odds_for_event: requests and result
    bt,               \* a call of get_odds_for_matches_batch
    mn,               \* main's processing loop
    ev                \* events processed through browsers, and their verdicts

matchVars == <<pc, away_team_focus, home_team, away_team, h2h,
               cnt_home, cnt_away, h2h_count, win_rate, basic_qualifies,
               qualifies, forms, form_advantage, odds, ou>>

\* the variables of the specifications of single functions
pureVars == <<nm, pt, fm, tn, sf>>

\* the variables of the odds client, of main and of the event orderings
laterVars == <<od, bt, mn, ev>>

vars == <<matchVars, pureVars, laterVars>>

-----------------------------------------------------------------------------
(* Texts *)

None == << "None" >>

\* Python truthiness of an Optional[str]
Truthy(x) == x # None /\ x # << >>

Digits == {"0", "1", "2", "3", "4", "5", "6", "7", "8", "9"}

DigitVal(c) ==
    CASE c = "0" -> 0 [] c = "1" -> 1 [] c = "2" -> 2 [] c = "3" -> 3
      [] c = "4" -> 4 [] c = "5" -> 5 [] c = "6" -> 6 [] c = "7" -> 7
      [] c = "8" -> 8 [] c = "9" -> 9

\* str.lower() on one character
LowerChar(c) ==
    CASE c = "A" -> "a" [] c = "B" -> "b" [] c = "C" -> "c" [] OTHER -> c

Lower(s) == [i \in 1..Len(s) |-> LowerChar(s[i])]

IsSpace(c) == c = " "

RECURSIVE LStrip(_)
LStrip(s) ==
    IF s # << >> /\ IsSpace(Head(s)) THEN LStrip(Tail(s)) ELSE s

RECURSIVE RStrip(_)
RStrip(s) ==
    IF s # << >> /\ IsSpace(s[Len(s)]) THEN RStrip(SubSeq(s, 1, Len(s) - 1))
    ELSE s

\* str.strip()
Strip(s) == RStrip(LStrip(s))

\* Python's  a in b  for two strings
IsSubstring(a, b) ==
    \E i \in 1..(Len(b) - Len(a) + 1) : SubSeq(b, i, i + Len(a) - 1) = a


-----------------------------------------------------------------------------
(* Score strings: re.search(r"(\d+)\s*[:\-]\s*(\d+)", score) *)

IsDigit(c) == c \in Digits

\* last index of the run of digits that starts at i (s[i] is a digit)
RECURSIVE DigitRunEnd(_, _)
DigitRunEnd(s, i) ==
    IF i + 1 <= Len(s) /\ IsDigit(s[i + 1]) THEN DigitRunEnd(s, i + 1) ELSE i

\* first index >= i that holds no white space (Len(s) + 1 when there is none)
RECURSIVE SkipSpaces(_, _)
SkipSpaces(s, i) ==
    IF i <= Len(s) /\ IsSpace(s[i]) THEN SkipSpaces(s, i + 1) ELSE i

\* int() of a run of digits
RECURSIVE ToInt(_)
ToInt(d) ==
    IF d = << >> THEN 0
    ELSE 10 * ToInt(SubSeq(d, 1, Len(d) - 1)) + DigitVal(d[Len(d)])

NoMatch == << >>

\* the two groups of the pattern matched at position i, or NoMatch
ScoreMatchAt(s, i) ==
    IF ~(i <= Len(s) /\ IsDigit(s[i])) THEN NoMatch
    ELSE LET e1 == DigitRunEnd(s, i)
             k  == SkipSpaces(s, e1 + 1)
         IN  IF ~(k <= Len(s) /\ s[k] \in {":", "-"}) THEN NoMatch
             ELSE LET m == SkipSpaces(s, k + 1)
                  IN  IF ~(m <= Len(s) /\ IsDigit(s[m])) THEN NoMatch
                      ELSE << ToInt(SubSeq(s, i, e1)),
                              ToInt(SubSeq(s, m, DigitRunEnd(s, m))) >>

\* re.search: the leftmost match
ScoreSearch(s) ==
    LET hits == {i \in 1..Len(s) : ScoreMatchAt(s, i) # NoMatch}
    IN  IF hits = {} THEN NoMatch
        ELSE ScoreMatchAt(s, CHOOSE i \in hits : \A j \in hits : i <= j)

-----------------------------------------------------------------------------
(* _parse_h2h_rows: one row of the H2H table *)

\* int(text) succeeds
IntParses(t) == t # << >> /\ \A i \in 1..Len(t) : IsDigit(t[i])

\* 'winner' of a row from the texts of its two result spans
RowWinner(goals_home, goals_away) ==
    IF IntParses(goals_home) /\ IntParses(goals_away)
    THEN LET gh == ToInt(goals_home)
             ga == ToInt(goals_away)
         IN  IF gh > ga THEN "home" ELSE IF ga > gh THEN "away" ELSE "draw"
    ELSE "unknown"

\* score = f"{goals_home}-{goals_away}"
RowScore(goals_home, goals_away) == goals_home \o << "-" >> \o goals_away

\* a row is kept only  if home and away and score
RowKept(row) ==
    Truthy(row.home) /\ Truthy(row.away)
        /\ RowScore(row.goals_home, row.goals_away) # << >>

RowRecord(row) ==
    [home   |-> row.home,
     away   |-> row.away,
     score  |-> RowScore(row.goals_home, row.goals_away),
     winner |-> RowWinner(row.goals_home, row.goals_away)]

-----------------------------------------------------------------------------
(* process_match: H2H win counting *)

H2HCap == 5

\* a name test that looks for the winner inside the current name only
NameMatchesOneWay(winner_team, current) ==
    /\ Truthy(winner_team)
    /\ Truthy(current)
    /\ LET winner_normalized  == Strip(Lower(winner_team))
           current_normalized == Strip(Lower(current))
       IN  \/ winner_normalized = current_normalized
           \/ IsSubstring(winner_normalized, current_normalized)

\* the name test of the win counting loop
NameMatches(winner_team, current) ==
    /\ Truthy(winner_team)
    /\ Truthy(current)
    /\ LET winner_normalized  == Strip(Lower(winner_team))
           current_normalized == Strip(Lower(current))
       IN  \/ winner_normalized = current_normalized
           \/ IsSubstring(winner_normalized, current_normalized)
           \/ IsSubstring(current_normalized, winner_normalized)

Skipped == << "skipped" >>

\* a winner_team that gives a tie to the home side
WinnerTeamTieToHome(item) ==
    LET score_match == ScoreSearch(item.score)
    IN  IF score_match = NoMatch THEN << "skipped" >>
        ELSE IF score_match[1] >= score_match[2] THEN Strip(item.home)
        ELSE Strip(item.away)

\* winner_team of one record: a name, None on a tie, Skipped when the score
\* string does not parse
WinnerTeam(item) ==
    LET score_match == ScoreSearch(item.score)
    IN  IF score_match = NoMatch THEN Skipped
        ELSE LET goals_home_side == score_match[1]
                 goals_away_side == score_match[2]
             IN  IF goals_home_side > goals_away_side THEN Strip(item.home)
                 ELSE IF goals_away_side > goals_home_side THEN Strip(item.away)
                 ELSE None

\* a counting that tests the away name only when the home name did not match
RecordWinsExclusive(item, current_home, current_away) ==
    LET winner_team == WinnerTeam(item)
    IN  IF winner_team = Skipped THEN << 0, 0 >>
        ELSE IF NameMatches(winner_team, current_home) THEN << 1, 0 >>
        ELSE IF NameMatches(winner_team, current_away) THEN << 0, 1 >>
        ELSE << 0, 0 >>

\* what one record adds to << cnt_home, cnt_away >>: the two name tests are
\* made one after the other, each on its own.  (The except branch of the loop
\* is not modelled: the records' fields are texts and both tests are guarded
\* by the truth of the two names, so no statement of the try block raises.)
RecordWins(item, current_home, current_away) ==
    LET winner_team == WinnerTeam(item)
    IN  IF winner_team = Skipped THEN << 0, 0 >>
        ELSE << IF NameMatches(winner_team, current_home) THEN 1 ELSE 0,
                IF NameMatches(winner_team, current_away) THEN 1 ELSE 0 >>

\* a loop that ends at the first record whose score does not parse
RECURSIVE H2HWinsUntilSkipped(_, _, _)
H2HWinsUntilSkipped(list, current_home, current_away) ==
    IF list = << >> \/ WinnerTeam(Head(list)) = Skipped THEN << 0, 0 >>
    ELSE LET first == RecordWins(Head(list), current_home, current_away)
             rest  == H2HWinsUntilSkipped(Tail(list), current_home, current_away)
         IN  << first[1] + rest[1], first[2] + rest[2] >>

\* << cnt_home, cnt_away >> after the loop over the records
RECURSIVE H2HWins(_, _, _)
H2HWins(list, current_home, current_away) ==
    IF list = << >> THEN << 0, 0 >>
    ELSE LET first == RecordWins(Head(list), current_home, current_away)
             rest  == H2HWins(Tail(list), current_home, current_away)
         IN  << first[1] + rest[1], first[2] + rest[2] >>

\* a table read one row further
MoreRowsSix(rows_seen) == rows_seen < H2HCap + 1

\* match_rows[:5]: a further row is parsed only among the first five
MoreRows(rows_seen) == rows_seen < H2HCap

\* cnt / len(h2h) if len(h2h) > 0 else 0.0
WinRate(cnt, n) == IF n > 0 THEN << cnt, n >> ELSE << 0, 1 >>

\* rate >= 0.60
AtLeast60(rate) == 5 * rate[1] >= 3 * rate[2]

\* a criterion that wants more than 0.60
BasicQualifiesStrict(rate, n) == 5 * rate[1] > 3 * rate[2] /\ n >= 1

BasicQualifies(rate, n) == AtLeast60(rate) /\ n >= 1

\* a win_rate that is always the home side's
HomeWinRate(focus_away, home_wins, away_wins, n) == WinRate(home_wins, n)

\* win_rate of the side the run looks at
FocusWinRate(focus_away, home_wins, away_wins, n) ==
    IF focus_away THEN WinRate(away_wins, n) ELSE WinRate(home_wins, n)

-----------------------------------------------------------------------------
(* Form analysis *)

FormCap == 5

\* a scoring that gives nothing for a draw
RECURSIVE form_points_no_draw(_)
form_points_no_draw(form_list) ==
    IF form_list = << >> THEN 0
    ELSE (IF Head(form_list) = "W" THEN 3 ELSE 0)
             + form_points_no_draw(Tail(form_list))

\* form_points of _analyze_form_advantage
RECURSIVE form_points(_)
form_points(form_list) ==
    IF form_list = << >> THEN 0
    ELSE (IF Head(form_list) = "W" THEN 3
          ELSE IF Head(form_list) = "D" THEN 1
          ELSE 0) + form_points(Tail(form_list))

\* form_points of _analyze_away_form_advantage (a second copy in the code)
RECURSIVE form_points_away(_)
form_points_away(form_list) ==
    IF form_list = << >> THEN 0
    ELSE (IF Head(form_list) = "W" THEN 3
          ELSE IF Head(form_list) = "D" THEN 1
          ELSE 0) + form_points_away(Tail(form_list))

\* an analyzer that wants both conditions
_analyze_form_advantage_both(form_data) ==
    LET home_overall_pts == form_points(form_data.home_form_overall)
        away_overall_pts == form_points(form_data.away_form_overall)
        home_home_pts    == form_points(form_data.home_form_home)
        away_away_pts    == form_points(form_data.away_form_away)
    IN  /\ home_overall_pts >= 7 /\ away_overall_pts <= 6
        /\ home_overall_pts > away_overall_pts
        /\ home_home_pts > away_away_pts

_analyze_form_advantage(form_data) ==
    LET home_overall_pts == form_points(form_data.home_form_overall)
        away_overall_pts == form_points(form_data.away_form_overall)
        home_home_pts    == form_points(form_data.home_form_home)
        away_away_pts    == form_points(form_data.away_form_away)
        home_good_form   == home_overall_pts >= 7
        away_poor_form   == away_overall_pts <= 6
        home_better      == /\ home_overall_pts > away_overall_pts
                            /\ home_home_pts > away_away_pts
    IN  (home_good_form /\ away_poor_form) \/ home_better

\* an away analyzer for which good form of the away side is enough
_analyze_away_form_advantage_good_only(form_data) ==
    LET home_overall_pts == form_points_away(form_data.home_form_overall)
        away_overall_pts == form_points_away(form_data.away_form_overall)
        home_home_pts    == form_points_away(form_data.home_form_home)
        away_away_pts    == form_points_away(form_data.away_form_away)
    IN  \/ away_overall_pts >= 7
        \/ away_overall_pts > home_overall_pts /\ away_away_pts > home_home_pts

\* an away analyzer that takes 7 points of the home side for poor form
_analyze_away_form_advantage_lax(form_data) ==
    LET home_overall_pts == form_points_away(form_data.home_form_overall)
        away_overall_pts == form_points_away(form_data.away_form_overall)
        home_home_pts    == form_points_away(form_data.home_form_home)
        away_away_pts    == form_points_away(form_data.away_form_away)
    IN  \/ away_overall_pts >= 7 /\ home_overall_pts <= 7
        \/ away_overall_pts > home_overall_pts /\ away_away_pts > home_home_pts

_analyze_away_form_advantage(form_data) ==
    LET home_overall_pts == form_points_away(form_data.home_form_overall)
        away_overall_pts == form_points_away(form_data.away_form_overall)
        home_home_pts    == form_points_away(form_data.home_form_home)
        away_away_pts    == form_points_away(form_data.away_form_away)
        away_good_form   == away_overall_pts >= 7
        home_poor_form   == home_overall_pts <= 6
        away_better      == /\ away_overall_pts > home_overall_pts
                            /\ away_away_pts > home_home_pts
    IN  (away_good_form /\ home_poor_form) \/ away_better

EmptyForms ==
    [home_form_overall |-> << >>, home_form_home |-> << >>,
     away_form_overall |-> << >>, away_form_away |-> << >>]

\* extract_advanced_team_form: the forms read from the three H2H pages
\* (page_forms), or the empty result when the url is no match url; the key
\* away_advantage is then absent and read with the default False
extract_advanced_team_form(is_match_url, page_forms) ==
    IF is_match_url
    THEN [forms          |-> page_forms,
          form_advantage |-> _analyze_form_advantage(page_forms),
          away_advantage |-> _analyze_away_form_advantage(page_forms)]
    ELSE [forms          |-> EmptyForms,
          form_advantage |-> FALSE,
          away_advantage |-> FALSE]

-----------------------------------------------------------------------------
(* What the pages and the collaborators can answer *)

\* names shown for the current home side: missing, or a text
HomeNamePool == {None, << "A" >>}

\* names shown for the current away side: empty, or a text
AwayNamePool == {<< >>, << "b" >>, << "a", "b" >>}

\* rows of the H2H table: a home win, an away win, a tie, a result that is
\* no number, and a row without a home name
RowPool ==
    {[home |-> << "a" >>, away |-> << "b" >>, goals_home |-> << "2" >>, goals_away |-> << "1" >>],
     [home |-> << "a" >>, away |-> << "b" >>, goals_home |-> << "1" >>, goals_away |-> << "2" >>],
     [home |-> << "a" >>, away |-> << "b" >>, goals_home |-> << "1" >>, goals_away |-> << "1" >>],
     [home |-> << "a" >>, away |-> << "b" >>, goals_home |-> << "x" >>, goals_away |-> << "1" >>],
     [home |-> None,      away |-> << "b" >>, goals_home |-> << "2" >>, goals_away |-> << "1" >>]}

W5 == << "W", "W", "W", "W", "W" >>

L5 == << "L", "L", "L", "L", "L" >>

\* forms read from the three H2H pages of an event
PageFormsPool ==
    {EmptyForms,
     [home_form_overall |-> << "W", "W", "W", "D", "D" >>, home_form_home |-> << "W" >>,
      away_form_overall |-> L5, away_form_away |-> << "L" >>],
     [home_form_overall |-> L5, home_form_home |-> << "L" >>,
      away_form_overall |-> << "W", "W", "W", "D", "D" >>, away_form_away |-> << "W" >>]}

SportPool == {"football", "basketball"}

\* an optional number: << >> is None, << n >> is the number n (odds and
\* lines in hundredths)
NoNumber == << >>

\* answers of extract_betting_odds_with_api
OddsPool ==
    {[home_odds |-> NoNumber, away_odds |-> NoNumber],
     [home_odds |-> << 185 >>, away_odds |-> << 210 >>]}

OuDefaults ==
    [ou_qualifies |-> FALSE, ou_recommendation |-> "None", ou_line |-> NoNumber,
     ou_h2h_percentage |-> 0, over_odds |-> NoNumber, under_odds |-> NoNumber,
     btts_qualifies |-> FALSE, btts_h2h_percentage |-> 0]

\* answers of get_over_under_odds: "raise", "none", or the odds found
OuOddsPool == {"raise", "none", "found"}

\* answers of over_under_analyzer.analyze_over_under
OuAnalysisPool == {"raise", "none", "no", "yes"}

-----------------------------------------------------------------------------
(* process_match *)

Idle == [step |-> "idle"]

\* no call of the odds client, no run of main, no event ordering
LaterIdle ==
    /\ od = Idle
    /\ bt = Idle
    /\ mn = Idle
    /\ ev = Idle

\* the out record as process_match first builds it
MatchInit ==
    /\ pc = "start"
    /\ away_team_focus \in BOOLEAN
    /\ home_team = None
    /\ away_team = None
    /\ h2h = << >>
    /\ cnt_home = 0
    /\ cnt_away = 0
    /\ h2h_count = 0
    /\ win_rate = << 0, 1 >>
    /\ basic_qualifies = FALSE
    /\ qualifies = FALSE
    /\ forms = EmptyForms
    /\ form_advantage = FALSE
    /\ odds = [home_odds |-> NoNumber, away_odds |-> NoNumber,
               provider_failed |-> FALSE]
    /\ ou = [rows_seen |-> 0, sport |-> "football", analyzer_called |-> FALSE,
             odds_failed |-> FALSE, analysis_failed |-> FALSE,
             fields |-> OuDefaults]

Init ==
    /\ MatchInit
    /\ nm = Idle
    /\ pt = Idle
    /\ fm = Idle
    /\ tn = Idle
    /\ sf = Idle
    /\ LaterIdle

\* driver.get(h2h_url) raises WebDriverException: the initial out is returned
OpenPageFails ==
    /\ pc = "start"
    /\ pc' = "done"
    /\ UNCHANGED <<away_team_focus, home_team, away_team, h2h,
                   cnt_home, cnt_away, h2h_count, win_rate, basic_qualifies,
                   qualifies, forms, form_advantage, odds, ou>>
    /\ UNCHANGED <<pureVars, laterVars>>

\* the page opens: the names of the two sides are read from it
OpenPage ==
    /\ pc = "start"
    /\ \E hn \in HomeNamePool, an \in AwayNamePool :
          /\ home_team' = hn
          /\ away_team' = an
    /\ pc' = "rows"
    /\ UNCHANGED <<away_team_focus, h2h, cnt_home, cnt_away,
                   h2h_count, win_rate, basic_qualifies, qualifies, forms,
                   form_advantage, odds, ou>>
    /\ UNCHANGED <<pureVars, laterVars>>

\* _parse_h2h_rows on the next of the first five rows of the table
ParseRow ==
    /\ pc = "rows"
    /\ MoreRows(ou.rows_seen)
    /\ \E row \in RowPool :
          h2h' = IF RowKept(row) THEN Append(h2h, RowRecord(row)) ELSE h2h
    /\ ou' = [ou EXCEPT !.rows_seen = @ + 1]
    /\ UNCHANGED <<pc, away_team_focus, home_team, away_team,
                   cnt_home, cnt_away, h2h_count, win_rate, basic_qualifies,
                   qualifies, forms, form_advantage, odds>>
    /\ UNCHANGED <<pureVars, laterVars>>

\* the win counting loop and the H2H criterion
CountWins ==
    /\ pc = "rows"
    /\ LET wins == H2HWins(h2h, home_team, away_team)
           wr   == FocusWinRate(away_team_focus, wins[1], wins[2], Len(h2h))
       IN  /\ cnt_home' = wins[1]
           /\ cnt_away' = wins[2]
           /\ h2h_count' = Len(h2h)
           /\ win_rate' = wr
           /\ basic_qualifies' = BasicQualifies(wr, Len(h2h))
    /\ pc' = "form"
    /\ UNCHANGED <<away_team_focus, home_team, away_team, h2h,
                   qualifies, forms, form_advantage, odds, ou>>
    /\ UNCHANGED <<pureVars, laterVars>>

\* a verdict that always shows the home side's advantage
HomeFormAdvantage(focus_away, advanced_form) == advanced_form.form_advantage

\* out['form_advantage']: the advantage of the side the run looks at
FocusFormAdvantage(focus_away, advanced_form) ==
    IF focus_away THEN advanced_form.away_advantage
    ELSE advanced_form.form_advantage

\* a run that fetches the form of every event
FormFetchedAlways(basic) == TRUE

\* "if basic_qualifies": the form is fetched for these events only
FormFetched(basic) == basic

\* the form of the two sides, fetched only for an event that passes the H2H
\* criterion
FormStep ==
    /\ pc = "form"
    /\ IF FormFetched(basic_qualifies)
       THEN \E is_match_url \in BOOLEAN, page_forms \in PageFormsPool :
               LET advanced_form == extract_advanced_team_form(is_match_url, page_forms)
               IN  /\ forms' = advanced_form.forms
                   /\ form_advantage' = FocusFormAdvantage(away_team_focus, advanced_form)
                   /\ qualifies' = basic_qualifies
       ELSE /\ qualifies' = FALSE
            /\ UNCHANGED <<forms, form_advantage>>
    /\ pc' = "odds"
    /\ UNCHANGED <<away_team_focus, home_team, away_team, h2h,
                   cnt_home, cnt_away, h2h_count, win_rate, basic_qualifies,
                   odds, ou>>
    /\ UNCHANGED <<pureVars, laterVars>>

\* what the odds client can do when asked: the module is missing, the call
\* raises, it returns None, or it returns odds
ProviderPool == {"import_error", "raise", "none", "found"}

\* a wrapper that lets the client's exception through
extract_betting_odds_with_api_uncaught(provider) ==
    [raised |-> provider = "raise",
     odds |-> IF provider = "found"
              THEN [home_odds |-> << 185 >>, away_odds |-> << 210 >>]
              ELSE [home_odds |-> NoNumber, away_odds |-> NoNumber]]

\* extract_betting_odds_with_api: the odds of the client, and both None when
\* it has none or fails; nothing is raised
extract_betting_odds_with_api(provider) ==
    [raised |-> FALSE,
     odds |-> IF provider = "found"
              THEN [home_odds |-> << 185 >>, away_odds |-> << 210 >>]
              ELSE [home_odds |-> NoNumber, away_odds |-> NoNumber]]

\* the sport is read off the url and the 1X2 odds are asked for;
\* provider_failed remembers that the client raised or returned nothing
OddsStep ==
    /\ pc = "odds"
    /\ \E sp \in SportPool, provider \in ProviderPool :
          LET answer == extract_betting_odds_with_api(provider)
          IN  IF answer.raised
              THEN /\ pc' = "raised"
                   /\ UNCHANGED <<odds, ou>>
              ELSE /\ pc' = "ou"
                   /\ ou' = [ou EXCEPT !.sport = sp]
                   /\ odds' = [home_odds |-> answer.odds.home_odds,
                               away_odds |-> answer.odds.away_odds,
                               provider_failed |-> provider # "found"]
    /\ UNCHANGED <<away_team_focus, home_team, away_team, h2h,
                   cnt_home, cnt_away, h2h_count, win_rate, basic_qualifies,
                   qualifies, forms, form_advantage>>
    /\ UNCHANGED <<pureVars, laterVars>>

\* the over/under fields after the odds request (step 1)
OuAfterOdds(fields, has_mid, n, ou_odds) ==
    IF has_mid /\ n >= 5 /\ ou_odds = "found"
    THEN [fields EXCEPT !.over_odds = << 190 >>, !.under_odds = << 195 >>]
    ELSE fields

\* an analysis made whatever the number of records
OuAfterAnalysisUnguarded(fields, sport, n, analysis) ==
    IF analysis = "yes"
    THEN [fields EXCEPT !.ou_qualifies = TRUE,
                        !.ou_recommendation = "OVER",
                        !.ou_line = << 250 >>,
                        !.ou_h2h_percentage = 80,
                        !.btts_qualifies = (sport = "football"),
                        !.btts_h2h_percentage =
                            IF sport = "football" THEN 60 ELSE 0]
    ELSE fields

\* the over/under fields after the analysis (step 2)
OuAfterAnalysis(fields, sport, n, analysis) ==
    IF n >= 5 /\ analysis = "yes"
    THEN [fields EXCEPT !.ou_qualifies = TRUE,
                        !.ou_recommendation = "OVER",
                        !.ou_line = << 250 >>,
                        !.ou_h2h_percentage = 80,
                        !.btts_qualifies = (sport = "football"),
                        !.btts_h2h_percentage =
                            IF sport = "football" THEN 60 ELSE 0]
    ELSE fields

\* the over/under analysis, made only with five H2H records; the function
\* then returns, and its local sport is gone (it is set back to its first
\* value).  odds_failed and analysis_failed remember that the odds request or
\* the analyzer was called and raised or returned nothing
OverUnderStep ==
    /\ pc = "ou"
    /\ \E has_mid \in BOOLEAN, ou_odds \in OuOddsPool, analysis \in OuAnalysisPool :
          ou' = [ou EXCEPT
                      !.sport = "football",
                      !.analyzer_called = Len(h2h) >= 5,
                      !.odds_failed = (has_mid /\ Len(h2h) >= 5
                                        /\ ou_odds \in {"raise", "none"}),
                      !.analysis_failed = (Len(h2h) >= 5
                                            /\ analysis \in {"raise", "none"}),
                      !.fields = OuAfterAnalysis(
                                    OuAfterOdds(OuDefaults, has_mid, Len(h2h), ou_odds),
                                    ou.sport, Len(h2h), analysis)]
    /\ pc' = "done"
    /\ UNCHANGED <<away_team_focus, home_team, away_team, h2h, cnt_home,
                   cnt_away, h2h_count, win_rate, basic_qualifies, qualifies,
                   forms, form_advantage, odds>>
    /\ UNCHANGED <<pureVars, laterVars>>

Next ==
    \/ OpenPageFails
    \/ OpenPage
    \/ ParseRow
    \/ CountWins
    \/ FormStep
    \/ OddsStep
    \/ OverUnderStep

Spec == Init /\ [][Next]_vars

-----------------------------------------------------------------------------
(* Properties of process_match *)

\* the verdict's fields hold their final H2H values
Counted == pc \in {"form", "odds", "ou", "done"}

\* qualifies holds its final value
Decided == pc \in {"odds", "ou", "done"}

\* the wins of the side the run looks at
FocusWins == IF away_team_focus THEN cnt_away ELSE cnt_home

\* the name of the side that won a record, by the numbers of its two result
\* spans (None for a tie or a result that is no number)
SideThatWon(r) ==
    IF r.winner = "home" THEN r.home
    ELSE IF r.winner = "away" THEN r.away
    ELSE None

\* the records of the history won by a side whose name matches current
WonBy(current) ==
    {i \in 1..Len(h2h) : NameMatches(SideThatWon(h2h[i]), current)}

C2_WinRateOfFocusSide ==
    Counted =>
        /\ h2h_count = Len(h2h)
        /\ h2h_count > 0 => win_rate = << FocusWins, h2h_count >>
        /\ h2h_count = 0 => (win_rate = << 0, 1 >> /\ ~qualifies)

C2_Witness ==
    /\ pc = "done" /\ away_team_focus /\ h2h_count = 5
    /\ cnt_home = 4 /\ cnt_away = 1
    /\ win_rate = << 1, 5 >> /\ ~qualifies

\* C3: h2h_count <= 5, neither side has more wins than there are records,
\* and win_rate lies in [0, 1].
C3_CountsBounded ==
    /\ h2h_count <= 5
    /\ Len(h2h) <= 5
    /\ cnt_home <= h2h_count
    /\ cnt_away <= h2h_count
    /\ 0 <= win_rate[1] /\ win_rate[1] <= win_rate[2]

C3_Witness ==
    pc = "done" /\ h2h_count = 5 /\ cnt_home = 5 /\ win_rate = << 5, 5 >>

\* C4: the winner of a record is its home name when home goals > away goals,
\* its away name when away goals > home goals, nobody on a tie: the wins of
\* each side are the records won by a matching name, and a history of ties
\* only gives 0 wins for both sides, win_rate 0.0 and qualifies false.
C4_WinnerByGoals ==
    Counted =>
        /\ cnt_home = Cardinality(WonBy(home_team))
        /\ cnt_away = Cardinality(WonBy(away_team))
        /\ (\A i \in 1..Len(h2h) : h2h[i].winner = "draw") =>
              /\ cnt_home = 0 /\ cnt_away = 0
              /\ win_rate[1] = 0
              /\ ~qualifies

C4_Witness ==
    /\ pc = "done" /\ h2h_count = 5
    /\ \A i \in 1..Len(h2h) : h2h[i].winner = "draw"
    /\ Truthy(home_team) /\ Truthy(away_team)
    /\ cnt_home = 0 /\ cnt_away = 0 /\ ~qualifies

\* the score string of a record does not parse into two integers
Unparsable(r) == ScoreSearch(r.score) = NoMatch

Parsable(r) == ~Unparsable(r)

\* C5: a record whose score string does not parse adds no win, the wins of
\* the other records are what they are without it, and the verdict is still
\* computed and returned.
C5_UnparsableRecordSkipped ==
    LET others == SelectSeq(h2h, Parsable)
        wins   == H2HWins(others, home_team, away_team)
    IN  Counted =>
            /\ cnt_home = wins[1]
            /\ cnt_away = wins[2]
            /\ cnt_home + cnt_away <= 2 * Len(others)
            /\ h2h_count = Len(h2h)

C5_Witness ==
    /\ pc = "done" /\ h2h_count = 5
    /\ Unparsable(h2h[1]) /\ Unparsable(h2h[3])
    /\ cnt_home = 3 /\ ~away_team_focus /\ qualifies

\* the decisive records whose winner matches both current names
WonByBoth == WonBy(home_team) \cap WonBy(away_team)

\* C6: the two name tests are independent: a record whose winner matches
\* both current names adds a win to both sides, so the two counts together
\* can exceed h2h_count.
C6_BothSidesCredited ==
    Counted =>
        /\ cnt_home >= Cardinality(WonByBoth)
        /\ cnt_away >= Cardinality(WonByBoth)
        /\ cnt_home + cnt_away =
              Cardinality(WonBy(home_team) \cup WonBy(away_team))
                  + Cardinality(WonByBoth)

C6_Witness ==
    /\ pc = "done" /\ h2h_count = 1
    /\ WonByBoth = {1}
    /\ cnt_home = 1 /\ cnt_away = 1
    /\ cnt_home + cnt_away > h2h_count

\* the over/under fields the analyzer fills are at their defaults
AnalysisFieldsDefault ==
    /\ ou.fields.ou_qualifies = FALSE
    /\ ou.fields.ou_recommendation = "None"
    /\ ou.fields.ou_line = NoNumber
    /\ ou.fields.ou_h2h_percentage = 0
    /\ ou.fields.btts_qualifies = FALSE
    /\ ou.fields.btts_h2h_percentage = 0

\* C22: when the odds client or the over/under analyzer raises or returns
\* nothing, process_match still returns its verdict: wins, h2h_count,
\* win_rate and qualifies are those of the history, the odds or over/under
\* fields concerned are None or at their defaults, and nothing is raised.
C22_CollaboratorFailureDegrades ==
    /\ pc # "raised"
    /\ pc = "done" =>
          /\ h2h_count = Len(h2h)
          /\ cnt_home = Cardinality(WonBy(home_team))
          /\ cnt_away = Cardinality(WonBy(away_team))
          /\ win_rate = IF Len(h2h) > 0 THEN << FocusWins, Len(h2h) >> ELSE << 0, 1 >>
          /\ qualifies <=> (Len(h2h) >= 1 /\ 5 * FocusWins >= 3 * Len(h2h))
          /\ [home_odds |-> odds.home_odds, away_odds |-> odds.away_odds] \in OddsPool
          /\ odds.provider_failed =>
                (odds.home_odds = NoNumber /\ odds.away_odds = NoNumber)
          /\ ou.odds_failed =>
                (ou.fields.over_odds = NoNumber /\ ou.fields.under_odds = NoNumber)
          /\ ou.analysis_failed => AnalysisFieldsDefault

\* a qualifying verdict with five records for which the odds client, the
\* over/under odds request and the analyzer all failed
C22_Witness ==
    /\ pc = "done"
    /\ qualifies /\ h2h_count = 5 /\ FocusWins = 4
    /\ odds.provider_failed
    /\ ou.odds_failed
    /\ ou.analysis_failed
    /\ ou.fields = OuDefaults

-----------------------------------------------------------------------------
(* process_match_tennis: H2H win counting *)

\* a tennis name test without the guard on the player's name
TennisNameMatchesUnguarded(winner, player) ==
    LET winner_normalized == Strip(Lower(winner))
        player_normalized == Strip(Lower(player))
    IN  \/ winner_normalized = player_normalized
        \/ IsSubstring(winner_normalized, player_normalized)
        \/ IsSubstring(player_normalized, winner_normalized)

\* the name test of the tennis loop: only the current player's name is
\* guarded
TennisNameMatches(winner, player) ==
    /\ Truthy(player)
    /\ LET winner_normalized == Strip(Lower(winner))
           player_normalized == Strip(Lower(player))
       IN  \/ winner_normalized = player_normalized
           \/ IsSubstring(winner_normalized, player_normalized)
           \/ IsSubstring(player_normalized, winner_normalized)

\* what one record adds to << player_a_wins, player_b_wins >>: a record is
\* credited to player B only when it is not credited to player A
TennisRecordWins(item, player_a, player_b) ==
    LET winner == WinnerTeam(item)
    IN  IF winner = Skipped \/ winner = None THEN << 0, 0 >>
        ELSE IF TennisNameMatches(winner, player_a) THEN << 1, 0 >>
        ELSE IF TennisNameMatches(winner, player_b) THEN << 0, 1 >>
        ELSE << 0, 0 >>

RECURSIVE TennisWins(_, _, _)
TennisWins(list, player_a, player_b) ==
    IF list = << >> THEN << 0, 0 >>
    ELSE LET first == TennisRecordWins(Head(list), player_a, player_b)
             rest  == TennisWins(Tail(list), player_a, player_b)
         IN  << first[1] + rest[1], first[2] + rest[2] >>

-----------------------------------------------------------------------------
(* extract_player_form_simple *)

UpperChar(c) ==
    CASE c = "w" -> "W" [] c = "l" -> "L" [] c = "d" -> "D" [] OTHER -> c

IsFormChar(c) == c \in {"W", "L", "D"}

\* the W/L/D characters of an indicator's upper-cased text
FormChars(text) == SelectSeq([i \in 1..Len(text) |-> UpperChar(text[i])], IsFormChar)

FirstN(s, n) == SubSeq(s, 1, IF Len(s) < n THEN Len(s) ELSE n)

DefaultForm == << "W", "W", "W", "L", "L" >>

\* the player takes part in the record as its home side
\* (player_normalized in home or home in player_normalized)
PlaysHome(player_normalized, match) ==
    LET home == Strip(Lower(match.home))
    IN  IsSubstring(player_normalized, home) \/ IsSubstring(home, player_normalized)

PlaysAway(player_normalized, match) ==
    LET away == Strip(Lower(match.away))
    IN  IsSubstring(player_normalized, away) \/ IsSubstring(away, player_normalized)

\* the results the H2H records give the player, in the records' order
RECURSIVE H2HForm(_, _)
H2HForm(player_normalized, list) ==
    IF list = << >> THEN << >>
    ELSE LET match == Head(list)
             one   == IF PlaysHome(player_normalized, match)
                      THEN (IF match.winner = "home" THEN << "W" >>
                            ELSE IF match.winner = "away" THEN << "L" >>
                            ELSE << >>)
                      ELSE IF PlaysAway(player_normalized, match)
                      THEN (IF match.winner = "away" THEN << "W" >>
                            ELSE IF match.winner = "home" THEN << "L" >>
                            ELSE << >>)
                      ELSE << >>
         IN  one \o H2HForm(player_normalized, Tail(list))

CountOf(form, sym) == Cardinality({i \in 1..Len(form) : form[i] = sym})

\* a form of fewer than five results is filled up to five
PadForm(player_form) ==
    IF Len(player_form) < 5 /\ player_form # << >>
    THEN LET wins   == CountOf(player_form, "W")
             losses == CountOf(player_form, "L")
             fill   == IF 2 * wins > wins + losses THEN "W" ELSE "L"
         IN  player_form \o [i \in 1..(5 - Len(player_form)) |-> fill]
    ELSE player_form

\* indicators: the texts of the form indicators found on the page
extract_player_form_simple(indicators, player_name, h2h_matches) ==
    IF ~Truthy(player_name) THEN << >>
    ELSE LET usable == {i \in 1..Len(indicators) : Len(FormChars(indicators[i])) >= 3}
         IN  IF usable # {}
             THEN LET first == CHOOSE i \in usable : \A j \in usable : i <= j
                      chars == FirstN(FormChars(indicators[first]), 5)
                  IN  [i \in 1..Len(chars) |-> IF chars[i] = "D" THEN "L" ELSE chars[i]]
             ELSE IF h2h_matches = << >> THEN DefaultForm
             ELSE LET player_form ==
                          PadForm(FirstN(H2HForm(Strip(Lower(player_name)), h2h_matches), 5))
                  IN  IF player_form = << >> THEN DefaultForm
                      ELSE FirstN(player_form, 5)

-----------------------------------------------------------------------------
(* calculate_surface_stats_from_h2h: the base win rate *)

\* << wins, total >> of the player over the records he takes part in
RECURSIVE SurfaceCounts(_, _)
SurfaceCounts(player_normalized, list) ==
    IF list = << >> THEN << 0, 0 >>
    ELSE LET match == Head(list)
             rest  == SurfaceCounts(player_normalized, Tail(list))
             one   == IF PlaysHome(player_normalized, match)
                      THEN << IF match.winner = "home" THEN 1 ELSE 0, 1 >>
                      ELSE IF PlaysAway(player_normalized, match)
                      THEN << IF match.winner = "away" THEN 1 ELSE 0, 1 >>
                      ELSE << 0, 0 >>
         IN  << one[1] + rest[1], one[2] + rest[2] >>

NoProfile == [returns |-> "None"]

\* the guard on the name, then step 1: wins / total of the player's records,
\* 0.60 ( << 3, 5 >> ) without any
SurfaceBase(h2h_matches, player_name) ==
    IF ~Truthy(player_name) THEN NoProfile
    ELSE LET counts == SurfaceCounts(Strip(Lower(player_name)), h2h_matches)
         IN  [returns   |-> "stats",
              wins      |-> counts[1],
              total     |-> counts[2],
              base_rate |-> IF counts[2] > 0 THEN counts ELSE << 3, 5 >>]

-----------------------------------------------------------------------------
(* The name comparisons, each on its own *)

MaxNameLen == 2

NameChars == {"a", "b", "A"}

SeqsUpTo(S, n) == UNION {[1..k -> S] : k \in 0..n}

\* names of the sides of a record: texts that are not empty
RecNames == SeqsUpTo(NameChars, MaxNameLen) \ {<< >>}

\* names of a current side: a text, the empty text, or None
CurNames == RecNames \cup {<< >>, None}

OtherName == << "b" >>

\* the records of a comparison: name beats OtherName at home, then OtherName
\* beats name at home
NameHistory(name, k) ==
    FirstN(<< RowRecord([home |-> name, away |-> OtherName,
                         goals_home |-> << "2" >>, goals_away |-> << "1" >>]),
              RowRecord([home |-> OtherName, away |-> name,
                         goals_home |-> << "2" >>, goals_away |-> << "1" >>]) >>, k)

\* texts of the form indicators of a page
IndicatorPool == {<< >>, << << "w", "-", "D", "L" >> >>}

MatchIdle ==
    /\ pc = "off"
    /\ away_team_focus = FALSE
    /\ home_team = None
    /\ away_team = None
    /\ h2h = << >>
    /\ cnt_home = 0
    /\ cnt_away = 0
    /\ h2h_count = 0
    /\ win_rate = << 0, 1 >>
    /\ basic_qualifies = FALSE
    /\ qualifies = FALSE
    /\ forms = EmptyForms
    /\ form_advantage = FALSE
    /\ odds = [home_odds |-> NoNumber, away_odds |-> NoNumber,
               provider_failed |-> FALSE]
    /\ ou = [rows_seen |-> 0, sport |-> "football", analyzer_called |-> FALSE,
             odds_failed |-> FALSE, analysis_failed |-> FALSE,
             fields |-> OuDefaults]

InitNames ==
    /\ MatchIdle
    /\ pt = Idle
    /\ fm = Idle
    /\ tn = Idle
    /\ sf = Idle
    /\ \E name \in RecNames, current \in CurNames, k \in 0..2, side \in {"home", "away"} :
          nm = [step |-> "in", name |-> name, current |-> current,
                side |-> side, records |-> NameHistory(name, k),
                indicators |-> << >>, res |-> << >>]
    /\ LaterIdle

\* the test of the team loop on the winner name and the current name
MatchSite ==
    /\ nm.step = "in"
    /\ nm' = [nm EXCEPT !.step = "match",
                        !.res = NameMatches(nm.name, nm.current)]
    /\ UNCHANGED <<matchVars, pt, fm, tn, sf, laterVars>>

\* the team loop with the current name on one side and OtherName on the other
TeamSite ==
    /\ nm.step = "in"
    /\ nm' = [nm EXCEPT !.step = "team",
                        !.res = IF nm.side = "home"
                                THEN H2HWins(nm.records, nm.current, OtherName)
                                ELSE H2HWins(nm.records, OtherName, nm.current)]
    /\ UNCHANGED <<matchVars, pt, fm, tn, sf, laterVars>>

\* the tennis loop with the current name as player A or as player B
TennisSite ==
    /\ nm.step = "in"
    /\ nm' = [nm EXCEPT !.step = "tennis",
                        !.res = IF nm.side = "home"
                                THEN TennisWins(nm.records, nm.current, OtherName)
                                ELSE TennisWins(nm.records, OtherName, nm.current)]
    /\ UNCHANGED <<matchVars, pt, fm, tn, sf, laterVars>>

\* the form of the player of the current name
FormSite ==
    /\ nm.step = "in"
    /\ \E indicators \in IndicatorPool :
          nm' = [nm EXCEPT !.step = "form",
                           !.indicators = indicators,
                           !.res = extract_player_form_simple(
                                       indicators, nm.current, nm.records)]
    /\ UNCHANGED <<matchVars, pt, fm, tn, sf, laterVars>>

\* the base win rate of the player of the current name
SurfaceSite ==
    /\ nm.step = "in"
    /\ nm' = [nm EXCEPT !.step = "surface",
                        !.res = SurfaceBase(nm.records, nm.current)]
    /\ UNCHANGED <<matchVars, pt, fm, tn, sf, laterVars>>

NextNames ==
    \/ MatchSite
    \/ TeamSite
    \/ TennisSite
    \/ FormSite
    \/ SurfaceSite

SpecNames == InitNames /\ [][NextNames]_vars

\* lower-casing and trimming, stated on the characters
Folded(s) ==
    [i \in 1..Len(s) |-> IF s[i] = "A" THEN "a"
                         ELSE IF s[i] = "B" THEN "b"
                         ELSE IF s[i] = "C" THEN "c" ELSE s[i]]

Trimmed(s) ==
    LET inked == {i \in 1..Len(s) : s[i] # " "}
    IN  IF inked = {} THEN << >>
        ELSE SubSeq(s, CHOOSE i \in inked : \A j \in inked : i <= j,
                       CHOOSE i \in inked : \A j \in inked : i >= j)

\* y occurs in x
Occurs(y, x) ==
    \E u \in 0..(Len(x) - Len(y)) : \A k \in 1..Len(y) : x[u + k] = y[k]

\* equal, or one a substring of the other, after lower-casing and trimming
AlikeNames(a, b) ==
    LET x == Trimmed(Folded(a))
        y == Trimmed(Folded(b))
    IN  x = y \/ Occurs(x, y) \/ Occurs(y, x)

\* C7 as stated: the name match is true exactly when, after lower-casing and
\* trimming both names, they are equal or one is a substring of the other.
C7_MatchIffAlike ==
    (nm.step = "match" /\ nm.current # None) =>
        (nm.res <=> AlikeNames(nm.name, nm.current))

\* C7 as amended: the name match is true exactly when both names are present
\* and not empty and, after lower-casing and trimming, they are equal or one
\* is a substring of the other.
C7_MatchIffPresentAndAlike ==
    nm.step = "match" =>
        (nm.res <=> /\ Truthy(nm.name)
                    /\ Truthy(nm.current)
                    /\ AlikeNames(nm.name, nm.current))

C7_Witness ==
    /\ nm.step = "match"
    /\ nm.name = << "a" >> /\ nm.current = << "b", "A" >>
    /\ nm.res = TRUE

\* the wins credited to the side that carries the current name
CurrentSideWins == IF nm.side = "home" THEN nm.res[1] ELSE nm.res[2]

-----------------------------------------------------------------------------
(* form_points on its own *)

\* the three results of a form and one symbol that is none of them
FormSymbols == {"W", "D", "L", "X"}

InitPoints ==
    /\ MatchIdle
    /\ nm = Idle
    /\ fm = Idle
    /\ tn = Idle
    /\ sf = Idle
    /\ \E form \in SeqsUpTo(FormSymbols, FormCap) :
          pt = [step |-> "in", form |-> form, home_pts |-> 0, away_pts |-> 0]
    /\ LaterIdle

\* the two analyzers score the form, each with its own form_points
ScoreForm ==
    /\ pt.step = "in"
    /\ pt' = [pt EXCEPT !.step = "done",
                        !.home_pts = form_points(pt.form),
                        !.away_pts = form_points_away(pt.form)]
    /\ UNCHANGED <<matchVars, nm, fm, tn, sf, laterVars>>

NextPoints == ScoreForm

SpecPoints == InitPoints /\ [][NextPoints]_vars

\* C9: form_points is 3 times the number of 'W' plus the number of 'D'; 'L'
\* and any other symbol add nothing; both analyzers score alike
\* (W W W W W gives 15, the empty form 0, D D D gives 3).
C9_FormPoints ==
    pt.step = "done" =>
        /\ pt.home_pts = 3 * CountOf(pt.form, "W") + CountOf(pt.form, "D")
        /\ pt.away_pts = 3 * CountOf(pt.form, "W") + CountOf(pt.form, "D")
        /\ pt.form = W5 => pt.home_pts = 15
        /\ pt.form = << >> => pt.home_pts = 0
        /\ pt.form = << "D", "D", "D" >> => pt.home_pts = 3

C9_Witness ==
    /\ pt.step = "done"
    /\ pt.form = << "W", "D", "L", "X", "W" >>
    /\ pt.home_pts = 7 /\ pt.away_pts = 7

-----------------------------------------------------------------------------
(* The form analyzers on their own *)

MaxOverallLen == 3

WWWDD == << "W", "W", "W", "D", "D" >>

\* overall forms: every short form, and two of full length
OverallForms == SeqsUpTo({"W", "D", "L"}, MaxOverallLen) \cup {WWWDD, L5}

\* forms at the own venue
VenueForms == {<< >>, << "W" >>, << "W", "W" >>}

InitForm ==
    /\ MatchIdle
    /\ nm = Idle
    /\ pt = Idle
    /\ tn = Idle
    /\ sf = Idle
    /\ \E ho \in OverallForms, ao \in OverallForms, hh \in VenueForms, aa \in VenueForms :
          fm = [step |-> "in",
                profile |-> [home_form_overall |-> ho, home_form_home |-> hh,
                             away_form_overall |-> ao, away_form_away |-> aa],
                form_advantage |-> FALSE, away_advantage |-> FALSE]
    /\ LaterIdle

\* steps 4 and 5 of extract_advanced_team_form
AnalyzeForm ==
    /\ fm.step = "in"
    /\ fm' = [fm EXCEPT !.step = "done",
                        !.form_advantage = _analyze_form_advantage(fm.profile),
                        !.away_advantage = _analyze_away_form_advantage(fm.profile)]
    /\ UNCHANGED <<matchVars, nm, pt, tn, sf, laterVars>>

NextForm == AnalyzeForm

SpecForm == InitForm /\ [][NextForm]_vars

\* the points of a form: 3 for a win, 1 for a draw
Pts(form) == 3 * CountOf(form, "W") + CountOf(form, "D")

Swapped(profile) ==
    [home_form_overall |-> profile.away_form_overall,
     home_form_home    |-> profile.away_form_away,
     away_form_overall |-> profile.home_form_overall,
     away_form_away    |-> profile.home_form_home]

\* C11: away_advantage of a profile is home_advantage of the profile with
\* the home and away roles exchanged (overall with overall, own venue with
\* own venue).
C11_AwayMirrorsHome ==
    fm.step = "done" =>
        fm.away_advantage = _analyze_form_advantage(Swapped(fm.profile))

C11_Witness ==
    /\ fm.step = "done"
    /\ fm.profile.away_form_overall = << "W", "W", "W" >>
    /\ fm.profile.home_form_overall = << "W", "D", "D" >>
    /\ fm.profile.away_form_away = << >>
    /\ fm.profile.home_form_home = << "W", "W" >>
    /\ fm.away_advantage
    /\ ~fm.form_advantage

\* C28: for every form profile home_advantage and away_advantage are never
\* both true (both may be false, also when one side has strictly more overall
\* points than the other: see the witness).
C28_AdvantagesExclusive ==
    fm.step = "done" => ~(fm.form_advantage /\ fm.away_advantage)

\* neither side has the advantage although the home side has 6 overall
\* points and the away side none
C28_Witness ==
    /\ fm.step = "done"
    /\ Pts(fm.profile.home_form_overall) = 6
    /\ Pts(fm.profile.away_form_overall) = 0
    /\ Pts(fm.profile.home_form_home) = Pts(fm.profile.away_form_away)
    /\ ~fm.form_advantage
    /\ ~fm.away_advantage

-----------------------------------------------------------------------------
(* process_match: the form advantage of the verdict *)

\* the advantage of the home side in the forms of the verdict
HomePredicate == _analyze_form_advantage(forms)

\* the advantage of the away side in the forms of the verdict
AwayPredicate == _analyze_away_form_advantage(forms)

\* C12: when the event qualifies and its forms were fetched, form_advantage
\* is the away predicate of these forms in an away-focus run and the home
\* predicate in a home-focus run; the predicate of the other side is not
\* shown.
C12_AdvantageOfFocusSide ==
    (Decided /\ qualifies) =>
        form_advantage = IF away_team_focus THEN AwayPredicate ELSE HomePredicate

C12_Witness ==
    /\ pc = "done" /\ qualifies /\ away_team_focus
    /\ forms.home_form_overall = << "W", "W", "W", "D", "D" >>
    /\ HomePredicate /\ ~AwayPredicate
    /\ ~form_advantage

-----------------------------------------------------------------------------
(* process_match_tennis *)

\* names shown for player A: missing, or a text
PlayerANamePool == {None, << "a" >>, << "A" >>}

\* names shown for player B: empty, or a text
PlayerBNamePool == {<< >>, << "b" >>}

\* rows of the H2H table of two players: a wins at home, b wins away, b wins
\* at home, a tie, a result that is no number
TennisRows ==
    {[home |-> << "a" >>, away |-> << "b" >>, goals_home |-> << "2" >>, goals_away |-> << "1" >>],
     [home |-> << "a" >>, away |-> << "b" >>, goals_home |-> << "1" >>, goals_away |-> << "2" >>],
     [home |-> << "b" >>, away |-> << "a" >>, goals_home |-> << "2" >>, goals_away |-> << "0" >>],
     [home |-> << "a" >>, away |-> << "b" >>, goals_home |-> << "1" >>, goals_away |-> << "1" >>],
     [home |-> << "a" >>, away |-> << "b" >>, goals_home |-> << "x" >>, goals_away |-> << "1" >>]}

\* the rows a table can show at its k-th place: any row at the first three
\* places, a win of the home player at the last two
TennisRowPool(k) ==
    IF k <= 3 THEN TennisRows
    ELSE {row \in TennisRows : row.goals_home = << "2" >>}

\* what the page gives besides the names and the table: the two rankings,
\* the surface and the odds, all missing or all found
TennisPagePool ==
    {[ranking_a |-> NoNumber, ranking_b |-> NoNumber, surface |-> "None",
      home_odds |-> NoNumber, away_odds |-> NoNumber],
     [ranking_a |-> << 5 >>, ranking_b |-> << 120 >>, surface |-> "clay",
      home_odds |-> << 150 >>, away_odds |-> << 260 >>]}

\* the over/under fields of the tennis verdict as first written
TennisOuDefaults ==
    [ou_qualifies |-> FALSE, ou_line |-> "None", ou_line_type |-> "None",
     ou_h2h_percentage |-> 0, over_odds |-> NoNumber, under_odds |-> NoNumber,
     btts_qualifies |-> FALSE, btts_h2h_percentage |-> 0]

\* answers of over_under_analyzer.analyze_over_under for tennis
TennisOuAnalysisPool == {"raise", "none", "no", "yes"}

\* the out record as process_match_tennis first builds it: the keys
\* favorite, h2h_count, score_breakdown and the over/under keys are not in it
TennisOut ==
    [step |-> "start", player_a |-> None, player_b |-> None, h2h |-> << >>,
     rows_seen |-> 0, player_a_wins |-> 0, player_b_wins |-> 0,
     h2h_count |-> NoNumber,
     page |-> [ranking_a |-> NoNumber, ranking_b |-> NoNumber, surface |-> "None",
               home_odds |-> NoNumber, away_odds |-> NoNumber],
     form_a |-> << >>, form_b |-> << >>,
     ou |-> [written |-> FALSE, analyzer_called |-> FALSE, fields |-> TennisOuDefaults],
     v3_input |-> << >>, answer |-> << >>,
     advanced_score |-> 0, qualifies |-> FALSE,
     favorite |-> "absent", score_breakdown |-> "absent", path |-> "none"]

InitTennis ==
    /\ MatchIdle
    /\ nm = Idle
    /\ pt = Idle
    /\ fm = Idle
    /\ sf = Idle
    /\ tn = TennisOut
    /\ LaterIdle

\* driver.get(h2h_url) raises WebDriverException: the initial out is returned
TennisOpenFails ==
    /\ tn.step = "start"
    /\ tn' = [tn EXCEPT !.step = "done", !.path = "unopened"]
    /\ UNCHANGED <<matchVars, nm, pt, fm, sf, laterVars>>

\* the page opens: the names of the two players are read from it
TennisOpenPage ==
    /\ tn.step = "start"
    /\ \E a \in PlayerANamePool, b \in PlayerBNamePool :
          tn' = [tn EXCEPT !.step = "rows", !.player_a = a, !.player_b = b]
    /\ UNCHANGED <<matchVars, nm, pt, fm, sf, laterVars>>

\* _parse_h2h_rows on the next of the first five rows of the table
TennisParseRow ==
    /\ tn.step = "rows"
    /\ MoreRows(tn.rows_seen)
    /\ \E row \in TennisRowPool(tn.rows_seen + 1) :
          tn' = [tn EXCEPT !.rows_seen = @ + 1,
                           !.h2h = IF RowKept(row) THEN Append(@, RowRecord(row)) ELSE @]
    /\ UNCHANGED <<matchVars, nm, pt, fm, sf, laterVars>>

\* the win counting loop of the two players, then the rankings, the surface,
\* the two forms and the odds
TennisCount ==
    /\ tn.step = "rows"
    /\ \E page \in TennisPagePool :
          LET wins == TennisWins(tn.h2h, tn.player_a, tn.player_b)
          IN  tn' = [tn EXCEPT
                        !.step = "ou",
                        !.player_a_wins = wins[1],
                        !.player_b_wins = wins[2],
                        !.h2h_count = << Len(tn.h2h) >>,
                        !.page = [page EXCEPT
                                     !.ranking_a = IF Truthy(tn.player_a) THEN @ ELSE NoNumber,
                                     !.ranking_b = IF Truthy(tn.player_b) THEN @ ELSE NoNumber],
                        !.form_a = extract_player_form_simple(<< >>, tn.player_a, tn.h2h),
                        !.form_b = extract_player_form_simple(<< >>, tn.player_b, tn.h2h)]
    /\ UNCHANGED <<matchVars, nm, pt, fm, sf, laterVars>>

\* the over/under fields of the tennis verdict after the analysis
TennisOuAfterAnalysis(fields, n, analysis, odds_found) ==
    IF n >= 5 /\ analysis \in {"no", "yes"}
    THEN [fields EXCEPT !.ou_qualifies = (analysis = "yes"),
                        !.ou_line = "2.5",
                        !.ou_line_type = "sets",
                        !.ou_h2h_percentage = 80,
                        !.over_odds = IF odds_found THEN << 180 >> ELSE @,
                        !.under_odds = IF odds_found THEN << 200 >> ELSE @]
    ELSE fields

\* the over/under analysis of the sets, made only with five H2H records
TennisOverUnder ==
    /\ tn.step = "ou"
    /\ \E analysis \in TennisOuAnalysisPool, odds_found \in BOOLEAN :
          tn' = [tn EXCEPT
                    !.step = "score",
                    !.ou = [written |-> TRUE,
                            analyzer_called |-> Len(tn.h2h) >= 5,
                            fields |-> TennisOuAfterAnalysis(
                                          TennisOuDefaults, Len(tn.h2h), analysis, odds_found)]]
    /\ UNCHANGED <<matchVars, nm, pt, fm, sf, laterVars>>

\* a winner told by the side of the record alone
V3WinnerBySide(h2h_match, player_a, player_b) ==
    IF h2h_match.winner = "home" THEN "player_a"
    ELSE IF h2h_match.winner = "away" THEN "player_b"
    ELSE "None"

\* the winner of one record as handed to TennisMatchAnalyzerV3
V3Winner(h2h_match, player_a, player_b) ==
    IF h2h_match.winner = "home"
    THEN (IF h2h_match.home = player_a THEN "player_a" ELSE "player_b")
    ELSE IF h2h_match.winner = "away"
    THEN (IF h2h_match.away = player_b THEN "player_b" ELSE "player_a")
    ELSE "None"

\* the winners of h2h_matches, one for each record of h2h
V3Matches(list, player_a, player_b) ==
    [i \in 1..Len(list) |-> V3Winner(list[i], player_a, player_b)]

\* a fallback that lets player A qualify on equal wins
FallbackQualifiesOnTie(player_a_wins, player_b_wins) ==
    player_a_wins >= 1 /\ player_a_wins >= player_b_wins

\* qualifies of the fallback
FallbackQualifies(player_a_wins, player_b_wins) ==
    player_a_wins >= 1 /\ player_a_wins > player_b_wins

\* the favorite by the wins of the two players
HeadToHeadFavorite(player_a_wins, player_b_wins) ==
    IF player_a_wins > player_b_wins THEN "player_a"
    ELSE IF player_b_wins > player_a_wins THEN "player_b"
    ELSE "even"

\* a test that looks at the score only
OverrideOnZeroOnly(advanced_score, favorite_key) == advanced_score = 0

\* the favorite is taken from the wins of the two players
OverrideFavorite(advanced_score, favorite_key) ==
    advanced_score = 0 \/ favorite_key = "even"

Abs(x) == IF x < 0 THEN 0 - x ELSE x

\* what TennisMatchAnalyzerV3 can answer: the module cannot be imported,
\* analyze_match raises, its result lacks one of the keys read with [],
\* or it is a full result
V3Failures ==
    {[kind |-> k, total_score |-> 55, qualifies |-> TRUE, favorite |-> "player_a"] :
        k \in {"import_error", "raises", "no_total_score", "no_qualifies",
               "no_breakdown", "no_details"}}

V3Results ==
    {[kind |-> "result", total_score |-> s[1], qualifies |-> s[2], favorite |-> f] :
        s \in {<< 0 - 40, FALSE >>, << 0, FALSE >>, << 55, TRUE >>},
        f \in {"player_a", "player_b", "even"}}

V3AnswerPool == V3Failures \cup V3Results

\* the except branch
TennisFallback(out) ==
    [out EXCEPT !.qualifies = FallbackQualifies(out.player_a_wins, out.player_b_wins),
                !.advanced_score = 0,
                !.favorite = HeadToHeadFavorite(out.player_a_wins, out.player_b_wins),
                !.path = "fallback"]

\* the try block from the call of analyze_match on
TennisAnalyzed(out, answer) ==
    IF answer.kind \in {"raises", "no_total_score"} THEN TennisFallback(out)
    ELSE LET scored == [out EXCEPT !.advanced_score = Abs(answer.total_score)]
         IN  IF answer.kind = "no_qualifies" THEN TennisFallback(scored)
             ELSE LET decided == [scored EXCEPT !.qualifies = answer.qualifies]
                  IN  IF answer.kind = "no_breakdown" THEN TennisFallback(decided)
                      ELSE LET broken == [decided EXCEPT !.score_breakdown = "written"]
                           IN  IF answer.kind = "no_details" THEN TennisFallback(broken)
                               ELSE [broken EXCEPT
                                        !.favorite =
                                            IF OverrideFavorite(broken.advanced_score, answer.favorite)
                                            THEN HeadToHeadFavorite(out.player_a_wins, out.player_b_wins)
                                            ELSE answer.favorite,
                                        !.path = "normal"]

\* the advanced scoring: the records are handed to the analyzer and its
\* answer is written to out, or the fallback is
TennisScore ==
    /\ tn.step = "score"
    /\ \E answer \in V3AnswerPool :
          LET asked == [tn EXCEPT !.step = "done", !.answer = << answer >>]
          IN  tn' = IF answer.kind = "import_error" THEN TennisFallback(asked)
                    ELSE TennisAnalyzed(
                            [asked EXCEPT !.v3_input =
                                << V3Matches(tn.h2h, tn.player_a, tn.player_b) >>],
                            answer)
    /\ UNCHANGED <<matchVars, nm, pt, fm, sf, laterVars>>

NextTennis ==
    \/ TennisOpenFails
    \/ TennisOpenPage
    \/ TennisParseRow
    \/ TennisCount
    \/ TennisOverUnder
    \/ TennisScore

SpecTennis == InitTennis /\ [][NextTennis]_vars

-----------------------------------------------------------------------------
(* Properties of process_match_tennis *)

\* the answer of the analyzer in a finished run that reached the scoring
V3Answer == tn.answer[1]

\* the analyzer failed: no import, an exception, or a result without a key
V3Failed == tn.step = "done" /\ tn.answer # << >> /\ V3Answer.kind # "result"

\* the analyzer gave a full result
V3Succeeded == tn.step = "done" /\ tn.answer # << >> /\ V3Answer.kind = "result"

\* the favorite is the one the wins of the two players give
FavoriteByWins ==
    /\ tn.player_a_wins > tn.player_b_wins => tn.favorite = "player_a"
    /\ tn.player_b_wins > tn.player_a_wins => tn.favorite = "player_b"
    /\ tn.player_a_wins = tn.player_b_wins => tn.favorite = "even"

\* C13: when the analyzer fails (it cannot be imported, it raises, or its
\* result lacks a key, also after some fields of the verdict were written),
\* the run still ends with a verdict: qualifies is true exactly when player A
\* has at least one H2H win and more wins than player B, advanced_score is
\* 0.0, and the favorite is the one the wins give, even on equal wins.
C13_FallbackVerdict ==
    V3Failed =>
        /\ tn.path = "fallback"
        /\ tn.qualifies <=> (tn.player_a_wins >= 1 /\ tn.player_a_wins > tn.player_b_wins)
        /\ tn.advanced_score = 0
        /\ FavoriteByWins

C13_Witness ==
    /\ V3Failed /\ V3Answer.kind = "no_details"
    /\ tn.score_breakdown = "written"
    /\ tn.player_a_wins = 1 /\ tn.player_b_wins = 1
    /\ ~tn.qualifies /\ tn.advanced_score = 0 /\ tn.favorite = "even"

\* C14: when the analyzer succeeds with a total score of 0 or the favorite
\* even, the favorite of the verdict is the one the wins of the two players
\* give (even only on equal wins); otherwise it is the analyzer's favorite.
C14_FavoriteOverride ==
    V3Succeeded =>
        IF V3Answer.total_score = 0 \/ V3Answer.favorite = "even"
        THEN FavoriteByWins
        ELSE tn.favorite = V3Answer.favorite

C14_Witness ==
    /\ V3Succeeded
    /\ V3Answer.total_score = 0 /\ V3Answer.favorite = "player_b"
    /\ tn.player_a_wins = 3 /\ tn.player_b_wins = 1
    /\ tn.favorite = "player_a"

\* C15: every verdict of process_match_tennis has a favorite among player_a,
\* player_b and even, and an advanced_score that is the absolute value of
\* the analyzer's total and so is not negative: on the normal path, on the
\* fallback path, and when the page could not be opened.
C15_VerdictWellFormed ==
    tn.step = "done" =>
        /\ tn.favorite \in {"player_a", "player_b", "even"}
        /\ tn.advanced_score >= 0
        /\ tn.path = "normal" => tn.advanced_score = Abs(V3Answer.total_score)

-----------------------------------------------------------------------------
(* calculate_surface_stats_from_h2h *)

\* rates are counted in three-hundredths: 0.01 is 3, and every wins / total
\* with total <= 5 is a whole number of them
Hundredths(n) == 3 * n

Rate(pair) == (300 * pair[1]) \div pair[2]

Min(x, y) == IF x <= y THEN x ELSE y

Max(x, y) == IF x >= y THEN x ELSE y

\* a player_ranking: None, an integer, or a text where a number is expected
NoRanking == [kind |-> "none", value |-> 0]

IntRanking(n) == [kind |-> "int", value |-> n]

TextRanking(empty) == [kind |-> "text", value |-> IF empty THEN 0 ELSE 1]

\* `if player_ranking:`
RankingGiven(player_ranking) ==
    \/ player_ranking.kind = "int" /\ player_ranking.value # 0
    \/ player_ranking.kind = "text" /\ player_ranking.value # 0

\* `player_ranking <= 10` raises TypeError for a text
RankingRaises(player_ranking) ==
    RankingGiven(player_ranking) /\ player_ranking.kind = "text"

\* tiers with the bonus of the top 30 given up to rank 50
RankingAdjustedWide(base_rate, player_ranking) ==
    IF ~RankingGiven(player_ranking) THEN base_rate
    ELSE LET rank == player_ranking.value
         IN  IF rank <= 10 THEN Min(base_rate + Hundredths(15), Hundredths(95))
             ELSE IF rank <= 50 THEN Min(base_rate + Hundredths(10), Hundredths(90))
             ELSE IF rank <= 100 THEN Min(base_rate, Hundredths(75))
             ELSE Max(base_rate - Hundredths(5), Hundredths(45))

\* step 2: the base rate after the ranking
RankingAdjusted(base_rate, player_ranking) ==
    IF ~RankingGiven(player_ranking) THEN base_rate
    ELSE LET rank == player_ranking.value
         IN  IF rank <= 10 THEN Min(base_rate + Hundredths(15), Hundredths(95))
             ELSE IF rank <= 30 THEN Min(base_rate + Hundredths(10), Hundredths(90))
             ELSE IF rank <= 50 THEN Min(base_rate + Hundredths(5), Hundredths(85))
             ELSE IF rank <= 100 THEN Min(base_rate, Hundredths(75))
             ELSE Max(base_rate - Hundredths(5), Hundredths(45))

\* ord(c) of the characters of names
Ord(c) == CASE c = "a" -> 97 [] c = "b" -> 98 [] c = "A" -> 65 [] OTHER -> 99

\* sum(ord(c) for c in player_name)
RECURSIVE NameHash(_)
NameHash(player_name) ==
    IF player_name = << >> THEN 0
    ELSE Ord(Head(player_name)) + NameHash(Tail(player_name))

Surfaces == << "clay", "grass", "hard" >>

\* a last step that adds the variation and does not clamp
Unclamped(x) == x

\* max(0.30, min(0.98, x))
Clamped(x) == Max(Hundredths(30), Min(Hundredths(98), x))

\* step 3: the value of one surface from the adjusted base rate
SurfaceValue(surf, base_rate, name_hash) ==
    LET specialty_surface == Surfaces[(name_hash % 3) + 1]
        specialised == IF surf = specialty_surface
                       THEN Min(base_rate + Hundredths(8), Hundredths(98))
                       ELSE Max(base_rate - Hundredths(4), Hundredths(30))
        micro_variation == Hundredths((name_hash % 7) - 3)
    IN  Clamped(specialised + micro_variation)

\* the profile of the except branch
FallbackProfile ==
    [returns |-> "stats", path |-> "except", base_rate |-> 0, adjusted |-> 0,
     clay |-> Hundredths(62), grass |-> Hundredths(68), hard |-> Hundredths(65)]

calculate_surface_stats_from_h2h(h2h_matches, player_name, player_ranking) ==
    LET base == SurfaceBase(h2h_matches, player_name)
    IN  IF base = NoProfile THEN NoProfile
        ELSE IF RankingRaises(player_ranking) THEN FallbackProfile
        ELSE LET adjusted  == RankingAdjusted(Rate(base.base_rate), player_ranking)
                 name_hash == NameHash(player_name)
             IN  [returns |-> "stats", path |-> "computed",
                  base_rate |-> Rate(base.base_rate), adjusted |-> adjusted,
                  clay  |-> SurfaceValue("clay", adjusted, name_hash),
                  grass |-> SurfaceValue("grass", adjusted, name_hash),
                  hard  |-> SurfaceValue("hard", adjusted, name_hash)]

\* the ranks next to the edges of the tiers, no ranking, and texts
RankingPool ==
    {NoRanking, TextRanking(TRUE), TextRanking(FALSE)}
        \cup {IntRanking(n) : n \in {1, 10, 11, 30, 31, 50, 51, 100, 101, 250}}

StrangerName == << "c" >>

\* records of a player's history: a win at home, a defeat at home, and a
\* record of two other players
SurfaceRecords(name) ==
    {RowRecord([home |-> name, away |-> StrangerName,
                goals_home |-> << "2" >>, goals_away |-> << "1" >>]),
     RowRecord([home |-> name, away |-> StrangerName,
                goals_home |-> << "0" >>, goals_away |-> << "2" >>]),
     RowRecord([home |-> StrangerName, away |-> StrangerName,
                goals_home |-> << "2" >>, goals_away |-> << "1" >>])}

InitSurface ==
    /\ MatchIdle
    /\ nm = Idle
    /\ pt = Idle
    /\ fm = Idle
    /\ tn = Idle
    /\ \E name \in CurNames, ranking \in RankingPool :
          \E records \in SeqsUpTo(SurfaceRecords(IF Truthy(name) THEN name ELSE OtherName),
                                  H2HCap) :
             sf = [step |-> "in", player_name |-> name, h2h_matches |-> records,
                   player_ranking |-> ranking, res |-> NoProfile]
    /\ LaterIdle

SurfaceStats ==
    /\ sf.step = "in"
    /\ sf' = [sf EXCEPT !.step = "done",
                        !.res = calculate_surface_stats_from_h2h(
                                    sf.h2h_matches, sf.player_name, sf.player_ranking)]
    /\ UNCHANGED <<matchVars, nm, pt, fm, tn, laterVars>>

NextSurface == SurfaceStats

SpecSurface == InitSurface /\ [][NextSurface]_vars

\* calculate_surface_stats_from_h2h gave a profile
ProfileGiven == sf.step = "done" /\ sf.res.returns = "stats"

\* C17: whenever calculate_surface_stats_from_h2h returns a profile, each of
\* clay, grass and hard lies in [0.30, 0.98].
C17_ProfileInRange ==
    ProfileGiven =>
        \A v \in {sf.res.clay, sf.res.grass, sf.res.hard} :
            Hundredths(30) <= v /\ v <= Hundredths(98)

C17_Witness ==
    /\ ProfileGiven /\ sf.res.path = "computed"
    /\ sf.res.base_rate = 0 /\ sf.player_ranking = NoRanking
    /\ sf.res.grass = Hundredths(30)

\* the records of the history the player takes part in, and those he won
OwnRecords == {i \in 1..Len(sf.h2h_matches) : sf.h2h_matches[i].home = sf.player_name}

OwnWins == {i \in OwnRecords : sf.h2h_matches[i].winner = "home"}

\* C18: the base rate b is the player's share of wins in the records he takes
\* part in, 0.60 without any; the ranking turns it into min(b + 0.15, 0.95)
\* up to rank 10, min(b + 0.10, 0.90) up to 30, min(b + 0.05, 0.85) up to
\* 50, min(b, 0.75) up to 100, max(b - 0.05, 0.45) beyond, and leaves it
\* alone without a ranking.
C18_RankingTiers ==
    (ProfileGiven /\ sf.res.path = "computed") =>
        LET b    == sf.res.base_rate
            rank == sf.player_ranking.value
        IN  /\ b = IF OwnRecords = {} THEN Hundredths(60)
                   ELSE (300 * Cardinality(OwnWins)) \div Cardinality(OwnRecords)
            /\ sf.player_ranking = NoRanking => sf.res.adjusted = b
            /\ sf.player_ranking.kind = "int" =>
                  /\ rank \in 1..10 => sf.res.adjusted = Min(b + Hundredths(15), Hundredths(95))
                  /\ rank \in 11..30 => sf.res.adjusted = Min(b + Hundredths(10), Hundredths(90))
                  /\ rank \in 31..50 => sf.res.adjusted = Min(b + Hundredths(5), Hundredths(85))
                  /\ rank \in 51..100 => sf.res.adjusted = Min(b, Hundredths(75))
                  /\ rank > 100 => sf.res.adjusted = Max(b - Hundredths(5), Hundredths(45))

C18_Witness ==
    /\ ProfileGiven /\ sf.res.path = "computed"
    /\ sf.player_ranking = IntRanking(31)
    /\ Cardinality(OwnRecords) = 4 /\ Cardinality(OwnWins) = 3
    /\ sf.res.base_rate = Hundredths(75) /\ sf.res.adjusted = Hundredths(80)

\* C19: a ranking that is no number makes the computation of the surface
\* profile fail in a way the caller sees; it never gives a defaulted profile.
C19_BadRankingFailsLoudly ==
    (sf.step = "done" /\ Truthy(sf.player_name) /\ sf.player_ranking.kind = "text") =>
        sf.res.returns = "raised"

\* C24: a better ranking (a lower number) gives a rate at least as high: for
\* the same name and the same history, the base rate adjusted with a rank is
\* not below the one adjusted with any higher rank.
C24_BetterRankingHigherRate ==
    (ProfileGiven /\ sf.res.path = "computed" /\ sf.player_ranking.kind = "int") =>
        \A other \in RankingPool :
            (other.kind = "int" /\ sf.player_ranking.value < other.value) =>
                sf.res.adjusted >= RankingAdjusted(sf.res.base_rate, other)

\* the surface the name hash selects for the boost, and the value of a
\* surface in the profile returned
BoostedSurface == Surfaces[(NameHash(sf.player_name) % 3) + 1]

ProfileValue(surf) ==
    CASE surf = "clay" -> sf.res.clay
      [] surf = "grass" -> sf.res.grass
      [] surf = "hard" -> sf.res.hard

PenalizedSurfaces == {"clay", "grass", "hard"} \ {BoostedSurface}

\* C29: in every profile returned the surface selected for the boost has a
\* value not below that of either penalized surface, and the two penalized
\* surfaces have equal values.
C29_BoostedSurfaceLeads ==
    ProfileGiven =>
        /\ \A surf \in PenalizedSurfaces :
              ProfileValue(BoostedSurface) >= ProfileValue(surf)
        /\ \A s1, s2 \in PenalizedSurfaces : ProfileValue(s1) = ProfileValue(s2)

-----------------------------------------------------------------------------
(* An event of either kind: process_match or process_match_tennis *)

InitEither ==
    \/ Init
    \/ InitTennis

NextEither ==
    \/ Next
    \/ NextTennis

SpecEither == InitEither /\ [][NextEither]_vars

-----------------------------------------------------------------------------
(* livesport_odds_api_client: get_odds_for_event *)

SPORTS_WITHOUT_DRAW == {"volleyball", "basketball", "handball", "hockey", "tennis"}

BET_TYPES_FOR_NO_DRAW_SPORTS == << "HOME_AWAY", "MATCH_WINNER", "HOME_DRAW_AWAY" >>

DEFAULT_BET_TYPE == "HOME_DRAW_AWAY"

\* no sport given: Python's None
NoSport == "None"

\* a client that asks for the bet type with a draw whatever the sport
BetTypesAlwaysDefault(sport) == << DEFAULT_BET_TYPE >>

\* bet_types_to_try of get_odds_for_event
BetTypesToTry(sport) ==
    IF sport # NoSport /\ sport # "" /\ sport \in SPORTS_WITHOUT_DRAW
    THEN BET_TYPES_FOR_NO_DRAW_SPORTS
    ELSE << DEFAULT_BET_TYPE >>

\* the value the loops over ['home', 'team1', '1'] and ['away', 'team2',
\* '2'] store: that of the first key that has one (<< >> when none has)
FirstPrice(values) ==
    IF \E i \in 1..Len(values) : values[i] # NoNumber
    THEN values[CHOOSE i \in 1..Len(values) :
                    /\ values[i] # NoNumber
                    /\ \A j \in 1..(i - 1) : values[j] = NoNumber]
    ELSE NoNumber

\* a price stored in a result that passes "if result.get(...)": not 0.0
Priced(field) == field # NoNumber /\ field[1] # 0

\* the None a lookup returns
NoResult == [returns |-> "None"]

\* _fetch_odds_with_bet_type: what one request gives.  A field of the result
\* is << >> when the dict has no such key and << v >> when it has.
_fetch_odds_with_bet_type(answer, bet_type) ==
    IF answer.kind # "odds" THEN NoResult
    ELSE LET result == [returns |-> "odds",
                        bet_type_used |-> bet_type,
                        home_odds |-> FirstPrice(answer.home),
                        draw_odds |-> answer.draw,
                        away_odds |-> FirstPrice(answer.away)]
         IN  IF Priced(result.home_odds) /\ Priced(result.away_odds)
             THEN result ELSE NoResult

BetTypes == {"HOME_AWAY", "MATCH_WINNER", "HOME_DRAW_AWAY"}

\* sports a caller passes: none, one with a draw, two without
ClientSportPool == {NoSport, "football", "volleyball", "tennis"}

\* a price quoted as a text that float() turns into 0.0
ZeroPrice == << 0 >>

\* what the server holds under the keys home, team1, 1
HomeKeysPool ==
    {<< NoNumber, NoNumber, NoNumber >>,
     << NoNumber, NoNumber, << 185 >> >>,
     << ZeroPrice, << 185 >>, NoNumber >>}

\* what the server holds under the keys away, team2, 2
AwayKeysPool ==
    {<< NoNumber, NoNumber, NoNumber >>,
     << NoNumber, << 210 >>, NoNumber >>}

DrawKeyPool == {NoNumber, << 350 >>}

\* what a request can come to: a RequestException, a status other than 200,
\* a body without odds, or odds
ServerAnswerPool ==
    {[kind |-> k, home |-> << >>, draw |-> NoNumber, away |-> << >>] :
        k \in {"request_exception", "status", "no_odds"}}
    \cup
    {[kind |-> "odds", home |-> h, draw |-> d, away |-> a] :
        h \in HomeKeysPool, d \in DrawKeyPool, a \in AwayKeysPool}

InitOdds ==
    /\ MatchIdle
    /\ nm = Idle
    /\ pt = Idle
    /\ fm = Idle
    /\ tn = Idle
    /\ sf = Idle
    /\ bt = Idle
    /\ mn = Idle
    /\ ev = Idle
    /\ \E sport \in ClientSportPool, server \in [BetTypes -> ServerAnswerPool] :
          od = [step |-> "in", sport |-> sport, server |-> server,
                requests |-> << >>, result |-> NoResult]

\* one round of the loop of get_odds_for_event: the next bet type is
\* requested, and its result returned when there is one
FetchOdds ==
    /\ od.step = "in"
    /\ Len(od.requests) < Len(BetTypesToTry(od.sport))
    /\ LET bet_type == BetTypesToTry(od.sport)[Len(od.requests) + 1]
           result   == _fetch_odds_with_bet_type(od.server[bet_type], bet_type)
       IN  od' = [od EXCEPT !.requests = Append(@, bet_type),
                            !.result = result,
                            !.step = IF result # NoResult THEN "done" ELSE "in"]
    /\ UNCHANGED <<matchVars, pureVars, bt, mn, ev>>

\* the loop is over and no bet type gave a result: None is returned
NoOddsFound ==
    /\ od.step = "in"
    /\ Len(od.requests) = Len(BetTypesToTry(od.sport))
    /\ od' = [od EXCEPT !.step = "done", !.result = NoResult]
    /\ UNCHANGED <<matchVars, pureVars, bt, mn, ev>>

NextOdds ==
    \/ FetchOdds
    \/ NoOddsFound

SpecOdds == InitOdds /\ [][NextOdds]_vars

\* the server would quote both sides for this bet type
QuotesBothSides(answer) ==
    /\ answer.kind = "odds"
    /\ \E i \in 1..3 : /\ Priced(answer.home[i])
                       /\ \A j \in 1..(i - 1) : answer.home[j] = NoNumber
    /\ \E i \in 1..3 : /\ Priced(answer.away[i])
                       /\ \A j \in 1..(i - 1) : answer.away[j] = NoNumber

\* the order in which the claim has the bet types requested
RequestOrder ==
    IF od.sport \in {"volleyball", "basketball", "handball", "hockey", "tennis"}
    THEN << "HOME_AWAY", "MATCH_WINNER", "HOME_DRAW_AWAY" >>
    ELSE << "HOME_DRAW_AWAY" >>

\* C21: the bet types are requested in the fallback order of the sport, none
\* after the first that quotes both sides; None is returned only after every
\* type of the order failed, and a result holds a home and an away price.
C21_BetTypeFallbackOrder ==
    od.step # "idle" =>
        /\ Len(od.requests) <= Len(RequestOrder)
        /\ od.requests = SubSeq(RequestOrder, 1, Len(od.requests))
        /\ \A i \in 1..(Len(od.requests) - 1) :
              ~QuotesBothSides(od.server[od.requests[i]])
        /\ (od.step = "in" /\ od.requests # << >>
              => ~QuotesBothSides(od.server[od.requests[Len(od.requests)]]))
        /\ (od.step = "done" /\ od.result = NoResult
              => /\ od.requests = RequestOrder
                 /\ \A i \in 1..Len(RequestOrder) :
                       ~QuotesBothSides(od.server[RequestOrder[i]]))
        /\ (od.step = "done" /\ od.result # NoResult
              => /\ Priced(od.result.home_odds)
                 /\ Priced(od.result.away_odds)
                 /\ od.result.bet_type_used = od.requests[Len(od.requests)]
                 /\ QuotesBothSides(od.server[od.result.bet_type_used]))

\* volleyball odds found by the second bet type, after the first failed
C21_Witness ==
    /\ od.step = "done"
    /\ od.sport = "volleyball"
    /\ od.requests = << "HOME_AWAY", "MATCH_WINNER" >>
    /\ od.result # NoResult
    /\ QuotesBothSides(od.server["HOME_DRAW_AWAY"])

-----------------------------------------------------------------------------
(* livesport_odds_api_client: get_odds_for_matches_batch *)

\* get_odds_for_event as a function: the result of the first bet type of
\* the sport's list that gives one
get_odds_for_event(sport, server) ==
    LET types == BetTypesToTry(sport)
        hits  == {i \in 1..Len(types) :
                     _fetch_odds_with_bet_type(server[types[i]], types[i]) # NoResult}
    IN  IF hits = {} THEN NoResult
        ELSE LET first == CHOOSE i \in hits : \A j \in hits : i <= j
             IN  _fetch_odds_with_bet_type(server[types[first]], types[first])

\* _detect_sport_from_url, on the sport segment of the url
_detect_sport_from_url(segment) ==
    CASE segment = "siatkowka" -> "volleyball"
      [] segment = "pilka-nozna" -> "football"
      [] OTHER -> "football"

\* get_odds_from_url without a sport: None for a url without event id
get_odds_from_url(url) ==
    IF ~url.mid THEN NoResult
    ELSE get_odds_for_event(_detect_sport_from_url(url.segment), url.server)

NoOddsAnswer == [kind |-> "no_odds", home |-> << >>, draw |-> NoNumber, away |-> << >>]

Quote(draw) ==
    [kind |-> "odds", home |-> << << 185 >>, NoNumber, NoNumber >>, draw |-> draw,
     away |-> << << 210 >>, NoNumber, NoNumber >>]

\* servers: one that quotes nothing, one that quotes two-way odds for
\* HOME_AWAY and three-way odds for HOME_DRAW_AWAY, and one whose
\* HOME_DRAW_AWAY odds come without a draw price
ServerPool ==
    {[b \in BetTypes |-> NoOddsAnswer],
     [b \in BetTypes |-> CASE b = "HOME_AWAY" -> Quote(NoNumber)
                           [] b = "MATCH_WINNER" -> NoOddsAnswer
                           [] b = "HOME_DRAW_AWAY" -> Quote(<< 350 >>)],
     [b \in BetTypes |-> IF b = "HOME_DRAW_AWAY" THEN Quote(NoNumber) ELSE NoOddsAnswer]}

\* match urls: with or without ?mid=, of football or volleyball
UrlPool ==
    {[mid |-> m, segment |-> s, server |-> v] :
        m \in BOOLEAN, s \in {"pilka-nozna", "siatkowka"}, v \in ServerPool}

MaxBatchLen == 2

InitBatch ==
    /\ MatchIdle
    /\ nm = Idle
    /\ pt = Idle
    /\ fm = Idle
    /\ tn = Idle
    /\ sf = Idle
    /\ od = Idle
    /\ mn = Idle
    /\ ev = Idle
    /\ \E match_urls \in SeqsUpTo(UrlPool, MaxBatchLen) :
          bt = [step |-> "loop", match_urls |-> match_urls, i |-> 1,
                results |-> << >>]

\* the entry built from a result: odds['draw_odds'] raises KeyError when the
\* result has no such key
BatchEntry(url, result) ==
    IF result.draw_odds = NoNumber THEN [raises |-> "KeyError"]
    ELSE [raises |-> "no", match_url |-> url, home_odds |-> result.home_odds,
          draw_odds |-> result.draw_odds, away_odds |-> result.away_odds]

\* one round of the loop over match_urls
BatchLookup ==
    /\ bt.step = "loop"
    /\ bt.i <= Len(bt.match_urls)
    /\ LET url  == bt.match_urls[bt.i]
           result == get_odds_from_url(url)
       IN  IF result = NoResult
           THEN bt' = [bt EXCEPT !.i = @ + 1]
           ELSE IF BatchEntry(url, result).raises = "KeyError"
           THEN bt' = [bt EXCEPT !.step = "raised"]
           ELSE bt' = [bt EXCEPT !.i = @ + 1,
                                 !.results = Append(@, BatchEntry(url, result))]
    /\ UNCHANGED <<matchVars, pureVars, od, mn, ev>>

\* the loop is over: results is returned
BatchReturn ==
    /\ bt.step = "loop"
    /\ bt.i > Len(bt.match_urls)
    /\ bt' = [bt EXCEPT !.step = "done"]
    /\ UNCHANGED <<matchVars, pureVars, od, mn, ev>>

NextBatch ==
    \/ BatchLookup
    \/ BatchReturn

SpecBatch == InitBatch /\ [][NextBatch]_vars

\* the urls of the list whose lookup returned a result, in input order
RECURSIVE UrlsWithOdds(_)
UrlsWithOdds(match_urls) ==
    IF match_urls = << >> THEN << >>
    ELSE IF get_odds_from_url(Head(match_urls)) # NoResult
         THEN << Head(match_urls) >> \o UrlsWithOdds(Tail(match_urls))
         ELSE UrlsWithOdds(Tail(match_urls))

\* C27: get_odds_for_matches_batch completes for every list of urls and
\* returns, in input order, exactly one entry for each url whose lookup
\* returned a result, also a result without a draw price.
C27_BatchCompletes ==
    /\ bt.step # "raised"
    /\ bt.step = "done" =>
          /\ Len(bt.results) = Len(UrlsWithOdds(bt.match_urls))
          /\ \A k \in 1..Len(bt.results) :
                bt.results[k].match_url = UrlsWithOdds(bt.match_urls)[k]

-----------------------------------------------------------------------------
(* main: the processing loop *)

\* RESTART_INTERVAL on GitHub Actions and elsewhere
RestartIntervalGithub == 30

RestartIntervalLocal == 80

CHECKPOINT_INTERVAL == 20

MaxUrls == 81

\* a loop that restarts the browser after the last match too
RestartDueAlsoLast(i, interval, n) == i % interval = 0

\* "if i % RESTART_INTERVAL == 0 and i < len(urls)"
RestartDue(i, interval, n) == i % interval = 0 /\ i < n

\* what processing a url comes to: a row that qualifies, a row that does
\* not, or an exception before any row is appended
MatchOutcomes == << "qualifies", "fails", "raises" >>

\* the urls of a run: their outcomes follow each other in turn, beginning
\* with any of the three
OutcomeOf(i, shift) == MatchOutcomes[((i + shift) % 3) + 1]

InitMain ==
    /\ MatchIdle
    /\ nm = Idle
    /\ pt = Idle
    /\ fm = Idle
    /\ tn = Idle
    /\ sf = Idle
    /\ od = Idle
    /\ bt = Idle
    /\ ev = Idle
    /\ \E n \in 0..MaxUrls, shift \in 0..2,
          interval \in {RestartIntervalGithub, RestartIntervalLocal} :
          mn = [step |-> "match", n |-> n, shift |-> shift,
                RESTART_INTERVAL |-> interval, i |-> 1,
                rows |-> << >>, qualifying_count |-> 0,
                restarts |-> {}, quit_failed |-> FALSE, saved |-> << >>]

\* no url was found: main returns before the loop
NoMatches ==
    /\ mn.step = "match"
    /\ mn.n = 0
    /\ mn' = [mn EXCEPT !.step = "returned"]
    /\ UNCHANGED <<matchVars, pureVars, od, bt, ev>>

\* one round of the loop up to the restart test: the url is processed, its
\* row appended and counted; an exception leaves rows as they are
ProcessUrl ==
    /\ mn.step = "match"
    /\ mn.i <= mn.n
    /\ LET outcome == OutcomeOf(mn.i, mn.shift)
           due     == RestartDue(mn.i, mn.RESTART_INTERVAL, mn.n)
       IN  mn' = [mn EXCEPT
                     !.rows = IF outcome = "raises" THEN @
                              ELSE Append(@, [url |-> mn.i,
                                              qualifies |-> outcome = "qualifies"]),
                     !.qualifying_count = IF outcome = "qualifies" THEN @ + 1 ELSE @,
                     !.step = IF due THEN "restart" ELSE "match",
                     !.i = IF due THEN @ ELSE @ + 1]
    /\ UNCHANGED <<matchVars, pureVars, od, bt, ev>>

\* the restart: quit and start_driver, or, when quit or the first
\* start_driver raises, start_driver again in the handler
RestartBrowser ==
    /\ mn.step = "restart"
    /\ \E quit_fails \in BOOLEAN :
          mn' = [mn EXCEPT !.step = "match",
                           !.i = @ + 1,
                           !.restarts = @ \cup {mn.i},
                           !.quit_failed = @ \/ quit_fails]
    /\ UNCHANGED <<matchVars, pureVars, od, bt, ev>>

\* start_driver raises in the handler too: the exception leaves main
RestartFails ==
    /\ mn.step = "restart"
    /\ mn' = [mn EXCEPT !.step = "crashed"]
    /\ UNCHANGED <<matchVars, pureVars, od, bt, ev>>

\* after the loop: the rows are written to the output file
WriteOutput ==
    /\ mn.step = "match"
    /\ mn.n > 0
    /\ mn.i > mn.n
    /\ mn' = [mn EXCEPT !.step = "written", !.saved = mn.rows]
    /\ UNCHANGED <<matchVars, pureVars, od, bt, ev>>

NextMain ==
    \/ NoMatches
    \/ ProcessUrl
    \/ RestartBrowser
    \/ RestartFails
    \/ WriteOutput

SpecMain == InitMain /\ [][NextMain]_vars

\* the matches processed so far
MatchesDone == IF mn.step \in {"restart", "crashed"} THEN mn.i ELSE mn.i - 1

\* the rows of the first k matches: of those that raised nothing
RECURSIVE RowsOfFirst(_)
RowsOfFirst(k) ==
    IF k = 0 THEN << >>
    ELSE IF OutcomeOf(k, mn.shift) = "raises" THEN RowsOfFirst(k - 1)
         ELSE Append(RowsOfFirst(k - 1),
                     [url |-> k, qualifies |-> OutcomeOf(k, mn.shift) = "qualifies"])

IsPrefix(s, t) == Len(s) <= Len(t) /\ s = SubSeq(t, 1, Len(s))

\* C25: a checkpoint of the rows collected so far is taken every
\* CHECKPOINT_INTERVAL = 20 matches: once 20k matches are processed, the
\* rows of the first 20k matches are stored, whatever happens afterwards.
C25_CheckpointEvery20 ==
    mn.step \in {"match", "restart", "crashed", "written"} =>
        LET covered == CHECKPOINT_INTERVAL * (MatchesDone \div CHECKPOINT_INTERVAL)
        IN  IsPrefix(RowsOfFirst(covered), mn.saved)

-----------------------------------------------------------------------------
(* Events processed one after another, or side by side with a browser each *)

\* the records _parse_h2h_rows keeps of the rows of a page
RECURSIVE ParsedRows(_)
ParsedRows(rows) ==
    IF rows = << >> THEN << >>
    ELSE IF RowKept(Head(rows))
         THEN << RowRecord(Head(rows)) >> \o ParsedRows(Tail(rows))
         ELSE ParsedRows(Tail(rows))

\* the out of a page that did not open
UnopenedVerdict == [opened |-> FALSE]

\* the out of process_match once the win rate of the focus side is known
TeamOut(page, list, wins, wr) ==
    [opened |-> TRUE, home_team |-> page.home, away_team |-> page.away,
     h2h_last5 |-> list,
     home_wins |-> wins[1], away_wins |-> wins[2],
     win_rate |-> wr, qualifies |-> BasicQualifies(wr, Len(list)),
     odds |-> extract_betting_odds_with_api(page.provider).odds,
     surface_stats |-> NoProfile]

\* the out of process_match once the wins of the two sides are counted
TeamCounted(page, focus_away, list, wins) ==
    TeamOut(page, list, wins,
            FocusWinRate(focus_away, wins[1], wins[2], Len(list)))

\* the out of process_match once the rows of the page are parsed
TeamParsed(page, focus_away, list) ==
    TeamCounted(page, focus_away, list, H2HWins(list, page.home, page.away))

\* what process_match writes into out for an opened page
TeamVerdict(page, focus_away) ==
    TeamParsed(page, focus_away, ParsedRows(page.rows))

\* the out of process_match_tennis once the wins of the players are counted
TennisCounted(page, list, wins) ==
    [opened |-> TRUE, home_team |-> page.home, away_team |-> page.away,
     h2h_last5 |-> list,
     home_wins |-> wins[1], away_wins |-> wins[2],
     win_rate |-> << 0, 1 >>,
     qualifies |-> FallbackQualifies(wins[1], wins[2]),
     odds |-> [home_odds |-> NoNumber, away_odds |-> NoNumber],
     surface_stats |-> calculate_surface_stats_from_h2h(list, page.home, NoRanking)]

\* the out of process_match_tennis once the rows of the page are parsed
TennisParsed(page, list) ==
    TennisCounted(page, list, TennisWins(list, page.home, page.away))

\* what process_match_tennis writes into out for an opened page when the
\* scoring module is missing: the wins, the surface profile of player A and
\* the verdict of the fallback
TennisVerdict(page) ==
    TennisParsed(page, ParsedRows(page.rows))

\* the verdict computed from the page a browser shows
VerdictOn(is_tennis, page, focus_away) ==
    IF is_tennis THEN TennisVerdict(page) ELSE TeamVerdict(page, focus_away)

HomeWinRow == [home |-> << "a" >>, away |-> << "b" >>,
               goals_home |-> << "2" >>, goals_away |-> << "1" >>]

AwayWinRow == [home |-> << "a" >>, away |-> << "b" >>,
               goals_home |-> << "1" >>, goals_away |-> << "2" >>]

\* event pages: a history won by the home side with odds quoted, a history
\* won by the away side, and a page without names and records
EventPagePool ==
    {[home |-> << "a" >>, away |-> << "b" >>,
      rows |-> << HomeWinRow, HomeWinRow, AwayWinRow >>, provider |-> "found"],
     [home |-> << "a" >>, away |-> << "b" >>,
      rows |-> << AwayWinRow, AwayWinRow >>, provider |-> "raise"],
     [home |-> None, away |-> << >>, rows |-> << >>, provider |-> "none"]}

\* an event: the kind of its url, whether driver.get opens it, its page
EventPool ==
    {[tennis |-> t, reachable |-> r, page |-> p] :
        t \in BOOLEAN, r \in BOOLEAN, p \in EventPagePool}

Events == {1, 2}

Workers == {1, 2}

\* how often one event is processed in a run
MaxRuns == 2

\* workers that all drive the first browser
SharedBrowser(w) == 1

\* the driver a call of process_match is given: main's own, or that of the
\* worker
BrowserOf(w) == w

InitEvents ==
    /\ MatchIdle
    /\ nm = Idle
    /\ pt = Idle
    /\ fm = Idle
    /\ tn = Idle
    /\ sf = Idle
    /\ od = Idle
    /\ bt = Idle
    /\ mn = Idle
    /\ \E events \in [Events -> EventPool], focus \in BOOLEAN, workers \in {{1}, Workers} :
          ev = [step |-> "run", events |-> events, away_team_focus |-> focus,
                workers |-> workers,
                shown |-> [w \in Workers |-> 0],
                job |-> [w \in Workers |-> 0],
                pc |-> [w \in Workers |-> "idle"],
                runs |-> [e \in Events |-> 0],
                verdicts |-> [e \in Events |-> {}],
                first |-> 0, overlapped |-> FALSE]

\* a call of process_match or process_match_tennis begins for some event
StartEvent ==
    /\ ev.step = "run"
    /\ \E w \in ev.workers, e \in Events :
          /\ ev.pc[w] = "idle"
          /\ ev.runs[e] < MaxRuns
          /\ ev' = [ev EXCEPT !.pc[w] = "get", !.job[w] = e,
                              !.runs[e] = @ + 1,
                              !.first = IF @ = 0 THEN e ELSE @]
    /\ UNCHANGED <<matchVars, pureVars, od, bt, mn>>

\* driver.get raises WebDriverException: the initial out is returned and the
\* browser shows what it showed
EventOpenFails ==
    /\ ev.step = "run"
    /\ \E w \in ev.workers :
          /\ ev.pc[w] = "get"
          /\ ~ev.events[ev.job[w]].reachable
          /\ ev' = [ev EXCEPT !.pc[w] = "idle", !.job[w] = 0,
                              !.verdicts[ev.job[w]] = @ \cup {UnopenedVerdict}]
    /\ UNCHANGED <<matchVars, pureVars, od, bt, mn>>

\* driver.get loads the event's H2H page into the browser
EventOpenPage ==
    /\ ev.step = "run"
    /\ \E w \in ev.workers :
          /\ ev.pc[w] = "get"
          /\ ev.events[ev.job[w]].reachable
          /\ ev' = [ev EXCEPT !.pc[w] = "read",
                              !.shown[BrowserOf(w)] = ev.job[w],
                              !.overlapped = @ \/ \E v \in ev.workers \ {w} :
                                                      ev.pc[v] = "read"]
    /\ UNCHANGED <<matchVars, pureVars, od, bt, mn>>

\* driver.page_source is parsed and the verdict computed and returned
EventReadPage ==
    /\ ev.step = "run"
    /\ \E w \in ev.workers :
          /\ ev.pc[w] = "read"
          /\ LET e    == ev.job[w]
                 page == ev.events[ev.shown[BrowserOf(w)]].page
             IN  ev' = [ev EXCEPT
                           !.pc[w] = "idle", !.job[w] = 0,
                           !.verdicts[e] = @ \cup {VerdictOn(ev.events[e].tennis, page,
                                                             ev.away_team_focus)}]
    /\ UNCHANGED <<matchVars, pureVars, od, bt, mn>>

NextEvents ==
    \/ StartEvent
    \/ EventOpenFails
    \/ EventOpenPage
    \/ EventReadPage

SpecEvents == InitEvents /\ [][NextEvents]_vars

\* the verdict of an event by its own inputs
OwnVerdict(e) ==
    IF ev.events[e].reachable
    THEN VerdictOn(ev.events[e].tennis, ev.events[e].page, ev.away_team_focus)
    ELSE UnopenedVerdict

=============================================================================
